---- MODULE Spec2Model ----
(***************************************************************************)
(* A model of the protocol layer of agentio/scalpel: the interceptor and   *)
(* handler options (option.go), the ErrorWriter (error_writer.go), the     *)
(* read-only compression registry (compression.go) and the Connect         *)
(* protocol (protocol_connect.go): content-type validation, status         *)
(* mapping, the protocol version check, errors on the wire, and the end    *)
(* of a stream as it is sent and as it is received.                        *)
(*                                                                         *)
(* Go strings whose characters matter (content types, codec names, type   *)
(* URLs, base64 text) are sequences of one-character strings; header maps  *)
(* are functions from canonical keys to sequences of values; JSON text is  *)
(* the document it spells, member order and whitespace included.           *)
(***************************************************************************)
EXTENDS Integers, Sequences, FiniteSets, TLC

VARIABLES
    phase,          \* which part of the program the behaviour exercises
    config,         \* the clientConfig / handlerConfig under construction
    applied,        \* the options applied so far, in order
    supplied,       \* every interceptor handed to WithInterceptors so far, in order
    hooks,          \* the invocations recorded: hooks around the last call, conditional functions
    writer,         \* the shared ErrorWriter
    pools,          \* the shared read-only compression registry
    names,          \* the registration-order name list the registry was built from
    calls,          \* per goroutine: the call in progress or just finished
    probe,          \* the Connect protocol function applied last, its arguments and result
    stream,         \* the Connect stream: the marshaler's sender and what it has written
    receive         \* the receiving end of a Connect stream: the unmarshaler and its last call

vars == <<phase, config, applied, supplied, hooks, writer, pools, names, calls,
          probe, stream, receive>>

chainVars == <<config, applied, supplied, hooks>>
sharedVars == <<writer, pools, names>>
connectVars == <<probe, stream, receive>>

(***************************************************************************)
(* Bounds.                                                                 *)
(***************************************************************************)
MaxSupplied == 4      \* interceptors supplied to one config, over all options
MaxPerOption == 3     \* interceptors in one WithInterceptors option
MaxOptions == 3       \* WithInterceptors options applied to one config

(***************************************************************************)
(* Interceptors (option.go, interceptor.go).                               *)
(***************************************************************************)
InterceptorIds == {"A", "B", "C"}

\* A nil Interceptor interface value.
NilInterceptor == [kind |-> "nil", id |-> "", interceptors |-> <<>>]

\* A user interceptor that records a hook before and after what it wraps.
Recorder(id) == [kind |-> "recorder", id |-> id, interceptors |-> <<>>]

Recorders == {Recorder(id) : id \in InterceptorIds}

RECURSIVE ReverseSeq(_)
ReverseSeq(s) ==
    IF s = <<>> THEN <<>> ELSE Append(ReverseSeq(Tail(s)), Head(s))

\* newChain: the chain keeps its interceptors in reverse order, so that
\* wrapping in slice order leaves the first interceptor outermost.
newChain(interceptors) ==
    [kind |-> "chain", id |-> "", interceptors |-> ReverseSeq(interceptors)]

\* interceptorsOption.chainWith, with the appended slices the wrong way round.
chainWithSwapped(o, current) ==
    IF Len(o.Interceptors) = 0 THEN current
    ELSE IF current = NilInterceptor /\ Len(o.Interceptors) = 1
        THEN o.Interceptors[1]
    ELSE IF current = NilInterceptor /\ Len(o.Interceptors) > 1
        THEN newChain(o.Interceptors)
    ELSE newChain(o.Interceptors \o <<current>>)

\* interceptorsOption.chainWith, forgetting the interceptor already configured.
chainWithDropped(o, current) ==
    IF Len(o.Interceptors) = 0 THEN current
    ELSE IF Len(o.Interceptors) = 1 THEN o.Interceptors[1]
    ELSE newChain(o.Interceptors)

\* interceptorsOption.chainWith, making a chain of a single interceptor too.
chainWithWrapping(o, current) ==
    IF Len(o.Interceptors) = 0 THEN current
    ELSE IF current = NilInterceptor THEN newChain(o.Interceptors)
    ELSE newChain(<<current>> \o o.Interceptors)

\* interceptorsOption.chainWith
chainWith(o, current) ==
    IF Len(o.Interceptors) = 0 THEN current
    ELSE IF current = NilInterceptor /\ Len(o.Interceptors) = 1
        THEN o.Interceptors[1]
    ELSE IF current = NilInterceptor /\ Len(o.Interceptors) > 1
        THEN newChain(o.Interceptors)
    ELSE newChain(<<current>> \o o.Interceptors)

\* WithInterceptors
WithInterceptors(interceptors) == [Interceptors |-> interceptors]

\* A UnaryFunc is modelled by the sequence of hook events its invocation
\* produces; a stream connection by the wrappers a message passes, outermost
\* first.
PreHook(id) == [hook |-> "pre", by |-> id]
PostHook(id) == [hook |-> "post", by |-> id]
CallHook == [hook |-> "call", by |-> ""]

\* Interceptor.WrapUnary: a recorder runs its pre hook, next, then its post
\* hook; a chain wraps next with each of its interceptors in slice order.
RECURSIVE WrapUnary(_, _)
RECURSIVE chainWrapUnary(_, _)
chainWrapUnary(interceptors, next) ==
    IF interceptors = <<>> THEN next
    ELSE chainWrapUnary(Tail(interceptors), WrapUnary(Head(interceptors), next))

WrapUnary(interceptor, next) ==
    CASE interceptor.kind = "recorder" ->
            <<PreHook(interceptor.id)>> \o next \o <<PostHook(interceptor.id)>>
      [] interceptor.kind = "chain" ->
            chainWrapUnary(interceptor.interceptors, next)
      [] OTHER -> next

\* Interceptor.WrapStreamingClient / WrapStreamingHandler: the connection is
\* the list of wrappers around the protocol's connection, outermost first.
RECURSIVE WrapStreaming(_, _)
RECURSIVE chainWrapStreaming(_, _)
chainWrapStreaming(interceptors, next) ==
    IF interceptors = <<>> THEN next
    ELSE chainWrapStreaming(Tail(interceptors),
                            WrapStreaming(Head(interceptors), next))

WrapStreaming(interceptor, next) ==
    CASE interceptor.kind = "recorder" -> <<interceptor.id>> \o next
      [] interceptor.kind = "chain" ->
            chainWrapStreaming(interceptor.interceptors, next)
      [] OTHER -> next

\* conn.Send: the message passes the wrappers from the outside in.
connSend(conn) == conn

\* conn.Receive: the message comes back through the wrappers from the inside out.
connReceive(conn) == ReverseSeq(conn)

NoHooks == [kind |-> "none", unary |-> <<>>, send |-> <<>>, receive |-> <<>>]

\* The hooks a unary call through the configured interceptor records.
UnaryHooks(interceptor) ==
    [kind |-> "unary", unary |-> WrapUnary(interceptor, <<CallHook>>),
     send |-> <<>>, receive |-> <<>>]

\* The wrappers that see a sent and a received message of a stream.
StreamHooks(interceptor) ==
    [kind |-> "stream", unary |-> <<>>,
     send |-> connSend(WrapStreaming(interceptor, <<>>)),
     receive |-> connReceive(WrapStreaming(interceptor, <<>>))]

(***************************************************************************)
(* Strings and HTTP headers.                                               *)
(***************************************************************************)
LowerLetters == <<"a","b","c","d","e","f","g","h","i","j","k","l","m",
                  "n","o","p","q","r","s","t","u","v","w","x","y","z">>
UpperLetters == <<"A","B","C","D","E","F","G","H","I","J","K","L","M",
                  "N","O","P","Q","R","S","T","U","V","W","X","Y","Z">>

IsLower(c) == \E i \in 1..26 : LowerLetters[i] = c
IsUpper(c) == \E i \in 1..26 : UpperLetters[i] = c

\* unicode.ToLower on one character
ToLowerChar(c) ==
    IF IsUpper(c) THEN LowerLetters[CHOOSE i \in 1..26 : UpperLetters[i] = c]
    ELSE c

\* strings.ToLower
ToLower(s) == [i \in 1..Len(s) |-> ToLowerChar(s[i])]

\* strings.HasPrefix
HasPrefix(s, prefix) ==
    /\ Len(s) >= Len(prefix)
    /\ SubSeq(s, 1, Len(prefix)) = prefix

Range(s) == {s[i] : i \in 1..Len(s)}

Count(s, c) == Cardinality({i \in 1..Len(s) : s[i] = c})

\* strings.Join: the elements with the separator between them. Elements are
\* kept whole, so the result is a sequence of elements and separators.
RECURSIVE Join(_, _)
Join(elems, sep) ==
    IF elems = <<>> THEN <<>>
    ELSE IF Len(elems) = 1 THEN <<elems[1]>>
    ELSE <<elems[1], sep>> \o Join(Tail(elems), sep)

headerContentType == "Content-Type"
headerTrailer == "Trailer"
grpcHeaderStatus == "Grpc-Status"
grpcHeaderMessage == "Grpc-Message"
grpcHeaderDetails == "Grpc-Status-Details-Bin"

S_application == <<"a","p","p","l","i","c","a","t","i","o","n","/">>
grpcContentTypeDefault == S_application \o <<"g","r","p","c">>
grpcContentTypePrefix == grpcContentTypeDefault \o <<"+">>

\* An http.Header with no entries.
EmptyHeader == <<>>

\* getHeaderCanonical: the first value under the key, or "".
getHeaderCanonical(h, key) ==
    IF key \in DOMAIN h /\ h[key] # <<>> THEN h[key][1] ELSE <<>>

\* The header map after setHeaderCanonical(h, key, value).
setHeaderCanonical(h, key, value) ==
    [k \in DOMAIN h \cup {key} |-> IF k = key THEN <<value>> ELSE h[k]]

\* The header map after mergeHeaders(into, from): values are appended.
mergeHeaders(into, from) ==
    [k \in DOMAIN into \cup DOMAIN from |->
        (IF k \in DOMAIN into THEN into[k] ELSE <<>>)
            \o (IF k \in DOMAIN from THEN from[k] ELSE <<>>)]

\* canonicalizeContentType: a content type of lower-case letters, '.', '+',
\* '-' and exactly one '/' is returned as it is; any other goes through
\* mime.ParseMediaType, which lower-cases the media type. (Content types
\* with parameters are outside the inputs modelled here; a value that does
\* not parse is returned unchanged.)
IsFastChar(c) == IsLower(c) \/ c \in {".", "+", "-", "/"}
IsTokenChar(c) == IsLower(c) \/ IsUpper(c) \/ c \in {".", "+", "-", "/"}

canonicalizeContentTypeSlow(contentType) ==
    IF /\ \A i \in 1..Len(contentType) : IsTokenChar(contentType[i])
       /\ Count(contentType, "/") = 1
       /\ contentType[1] # "/"
       /\ contentType[Len(contentType)] # "/"
    THEN ToLower(contentType)
    ELSE contentType

canonicalizeContentType(contentType) ==
    IF /\ \A i \in 1..Len(contentType) : IsFastChar(contentType[i])
       /\ Count(contentType, "/") = 1
    THEN contentType
    ELSE canonicalizeContentTypeSlow(contentType)

(***************************************************************************)
(* Errors and their gRPC trailers.                                         *)
(***************************************************************************)
CodeCanceled == 1
CodeUnknown == 2
CodeInvalidArgument == 3
CodeDeadlineExceeded == 4
CodeNotFound == 5
CodeAlreadyExists == 6
CodePermissionDenied == 7
CodeResourceExhausted == 8
CodeFailedPrecondition == 9
CodeAborted == 10
CodeOutOfRange == 11
CodeUnimplemented == 12
CodeInternal == 13
CodeUnavailable == 14
CodeDataLoss == 15
CodeUnauthenticated == 16

minCode == CodeCanceled
maxCode == CodeUnauthenticated

\* A nil error.
NilError == [kind |-> "nil", code |-> 0, message |-> "", details |-> <<>>,
             meta |-> EmptyHeader, wireErr |-> FALSE]

\* A *connect.Error.
ConnectError(code, message, details, meta, wireErr) ==
    [kind |-> "connect", code |-> code, message |-> message,
     details |-> details, meta |-> meta, wireErr |-> wireErr]

\* Any other error value; message is its Error() text.
PlainError(message) ==
    [kind |-> "plain", code |-> 0, message |-> message, details |-> <<>>,
     meta |-> EmptyHeader, wireErr |-> FALSE]

\* An *ErrorDetail: the packed message (type URL as characters, payload as
\* bytes), whether the unpacked message is at hand, and the JSON text the
\* detail was read from (empty for a detail built locally).
ErrorDetail(typeUrl, value, pbInner, wireJSON) ==
    [pbAny |-> [TypeUrl |-> typeUrl, Value |-> value], pbInner |-> pbInner,
     wireJSON |-> wireJSON]

defaultAnyResolverPrefix ==
    <<"t","y","p","e",".","g","o","o","g","l","e","a","p","i","s",".","c","o","m","/">>

S_rpcRetry == <<"r","p","c",".","R","e","t","r","y">>

\* The empty string where JSON text may stand.
NoJSON == [t |-> "none"]

\* NewErrorDetail on a message: anypb.New packs it under the default prefix.
NewErrorDetail(typeName, value) ==
    ErrorDetail(defaultAnyResolverPrefix \o typeName, value, TRUE, NoJSON)

\* NewErrorDetail on a message that is itself an Any: it is kept as it is.
NewErrorDetailFromAny(typeUrl, value) ==
    ErrorDetail(typeUrl, value, FALSE, NoJSON)

RetryDetail == NewErrorDetail(S_rpcRetry, <<102, 111, 111>>)

\* strconv.Itoa on a status code
Numerals == <<"1", "2", "3", "4", "5", "6", "7", "8", "9", "10", "11", "12",
              "13", "14", "15", "16", "17", "18", "19", "20">>
Itoa(code) == IF code = 0 THEN "0" ELSE Numerals[code]

\* grpcPercentEncode on the messages used here: '%' becomes "%25".
grpcPercentEncode(message) ==
    IF message = "50% done" THEN "50%25 done" ELSE message

\* grpcErrorToTrailer: a nil error yields status 0 alone; otherwise the
\* metadata of a locally constructed error, the status code and the
\* percent-encoded message, and the binary status when there are details.
grpcErrorToTrailer(trailer, protobuf, err) ==
    IF err.kind = "nil" THEN setHeaderCanonical(trailer, grpcHeaderStatus, "0")
    ELSE
        LET merged == IF err.kind = "connect" /\ ~err.wireErr
                      THEN mergeHeaders(trailer, err.meta) ELSE trailer
            code == IF err.kind = "connect" THEN err.code ELSE CodeUnknown
            withStatus == setHeaderCanonical(
                setHeaderCanonical(merged, grpcHeaderStatus, Itoa(code)),
                grpcHeaderMessage, grpcPercentEncode(err.message))
        IN  IF err.details # <<>>
            THEN setHeaderCanonical(withStatus, grpcHeaderDetails,
                                    <<protobuf, "status", Itoa(code)>>)
            ELSE withStatus

(***************************************************************************)
(* http.ResponseWriter: the header map, the status written (0: none), the  *)
(* header map as it was when the status was written, the body, and the     *)
(* operations performed on the writer, in order.                           *)
(***************************************************************************)
NewResponse(header) ==
    [header |-> header, status |-> 0, sent |-> EmptyHeader, body |-> <<>>,
     log |-> <<>>]

\* response.Header() followed by setHeaderCanonical
responseSetHeader(response, key, value) ==
    [response EXCEPT
        !.header = setHeaderCanonical(@, key, value),
        !.log = Append(@, [op |-> "set", key |-> key])]

\* response.WriteHeader: the first call fixes the status and the headers sent.
responseWriteHeader(response, status) ==
    IF response.status # 0
    THEN [response EXCEPT !.log = Append(@, [op |-> "status", key |-> ""])]
    ELSE [response EXCEPT
            !.status = status,
            !.sent = response.header,
            !.log = Append(@, [op |-> "status", key |-> ""])]

\* response.Header() followed by mergeHeaders
responseMergeHeaders(response, from) ==
    [response EXCEPT
        !.header = mergeHeaders(@, from),
        !.log = Append(@, [op |-> "merge", key |-> ""])]

(***************************************************************************)
(* ErrorWriter (error_writer.go).                                          *)
(***************************************************************************)
unknownProtocol == 0
grpcProtocol == 1

StatusOK == 200

NoWriter == [bufferPool |-> "", protobuf |-> "", requireConnectProtocolHeader |-> FALSE]

\* NewErrorWriter: the buffer pool and protobuf codec of a default handler
\* config, and the config's RequireConnectProtocolHeader.
NewErrorWriter(requireConnectProtocolHeader) ==
    [bufferPool |-> "bufferPool", protobuf |-> "proto",
     requireConnectProtocolHeader |-> requireConnectProtocolHeader]

\* An *http.Request: its method and headers.
Request(method, contentType) ==
    [Method |-> method,
     Header |-> IF contentType = <<>> THEN EmptyHeader
                ELSE setHeaderCanonical(EmptyHeader, headerContentType, contentType)]

\* ErrorWriter.classifyRequest without the method test.
classifyRequestAnyMethod(w, request) ==
    LET ctype == canonicalizeContentType(
                    getHeaderCanonical(request.Header, headerContentType))
    IN  IF ctype = grpcContentTypeDefault \/ HasPrefix(ctype, grpcContentTypePrefix)
        THEN grpcProtocol
        ELSE unknownProtocol

\* ErrorWriter.classifyRequest
classifyRequest(w, request) ==
    LET ctype == canonicalizeContentType(
                    getHeaderCanonical(request.Header, headerContentType))
        isPost == request.Method = "POST"
    IN  IF isPost /\ (ctype = grpcContentTypeDefault
                        \/ HasPrefix(ctype, grpcContentTypePrefix))
        THEN grpcProtocol
        ELSE unknownProtocol

\* ErrorWriter.IsSupported
IsSupported(w, request) == classifyRequest(w, request) # unknownProtocol

\* writeGRPC, lines 95-104: the trailers for the error, and the Trailer header
\* announcing their keys in the order the map iteration yields them.
writeGRPCAnnounce(w, response, err, keys) ==
    responseSetHeader(response, headerTrailer, Join(keys, ","))

\* writeGRPC, line 105
writeGRPCStatus(w, response) == responseWriteHeader(response, StatusOK)

\* writeGRPC, line 106
writeGRPCMerge(w, response, err) ==
    responseMergeHeaders(response,
                         grpcErrorToTrailer(EmptyHeader, w.protobuf, err))

\* The orders in which ranging over the trailers map can yield its keys.
KeyOrders(trailers) ==
    {keys \in [1..Cardinality(DOMAIN trailers) -> DOMAIN trailers] :
        \A i, j \in DOMAIN keys : i # j => keys[i] # keys[j]}

\* ErrorWriter.writeGRPC, merging the trailers before the status is written.
writeGRPCMergeFirst(w, response, err, keys) ==
    writeGRPCStatus(w,
        writeGRPCMerge(w, writeGRPCAnnounce(w, response, err, keys), err))

\* ErrorWriter.writeGRPC; returns the response, the returned error being nil.
writeGRPC(w, response, err, keys) ==
    writeGRPCMerge(w,
        writeGRPCStatus(w, writeGRPCAnnounce(w, response, err, keys)), err)

\* Write, line 85
writeSetContentType(w, response, request) ==
    responseSetHeader(response, headerContentType,
        canonicalizeContentType(
            getHeaderCanonical(request.Header, headerContentType)))

\* An unprefixed Connect JSON error body.
connectJSONBody(err) ==
    <<[code |-> err.code, message |-> err.message]>>

\* ErrorWriter.Write as its comment describes it: an unknown protocol gets the
\* error as Connect JSON.
WriteJSONForUnknown(w, response, request, err, keys) ==
    IF classifyRequest(w, request) = grpcProtocol
    THEN [response |-> writeGRPC(w, writeSetContentType(w, response, request),
                                 err, keys),
          ret |-> "nil"]
    ELSE [response |-> [response EXCEPT !.body = connectJSONBody(err),
                                        !.status = 500],
          ret |-> "nil"]

\* ErrorWriter.Write: the response after the call and the error returned.
Write(w, response, request, err, keys) ==
    IF classifyRequest(w, request) = grpcProtocol
    THEN [response |-> writeGRPC(w, writeSetContentType(w, response, request),
                                 err, keys),
          ret |-> "nil"]
    ELSE [response |-> response, ret |-> "nil"]

(***************************************************************************)
(* The read-only compression registry (compression.go).                    *)
(***************************************************************************)
compressionIdentity == "identity"

\* A nil *compressionPool.
NilPool == [pool |-> "<nil>"]

\* The *compressionPool registered under a name.
PoolFor(name) == [pool |-> name]

NoPools == [nameToPool |-> <<>>, commaSeparatedNames |-> <<>>]

\* The loop of newReadOnlyCompressionPools: from the last registered name to
\* the first, keeping a name the first time it is seen.
RECURSIVE dedupeFromEnd(_, _, _, _)
dedupeFromEnd(reversedNames, i, seen, acc) ==
    IF i < 1 THEN acc
    ELSE IF reversedNames[i] \in seen
        THEN dedupeFromEnd(reversedNames, i - 1, seen, acc)
    ELSE dedupeFromEnd(reversedNames, i - 1, seen \cup {reversedNames[i]},
                       Append(acc, reversedNames[i]))

\* The loop of newReadOnlyCompressionPools walking from the first name.
RECURSIVE dedupeFromStart(_, _, _, _)
dedupeFromStart(reversedNames, i, seen, acc) ==
    IF i > Len(reversedNames) THEN acc
    ELSE IF reversedNames[i] \in seen
        THEN dedupeFromStart(reversedNames, i + 1, seen, acc)
    ELSE dedupeFromStart(reversedNames, i + 1, seen \cup {reversedNames[i]},
                         Append(acc, reversedNames[i]))

\* newReadOnlyCompressionPools keeping registration order.
newReadOnlyCompressionPoolsForward(nameToPool, reversedNames) ==
    [nameToPool |-> nameToPool,
     commaSeparatedNames |->
        Join(dedupeFromStart(reversedNames, 1, {}, <<>>), ",")]

\* newReadOnlyCompressionPools without the seen check.
newReadOnlyCompressionPoolsNoDedupe(nameToPool, reversedNames) ==
    [nameToPool |-> nameToPool,
     commaSeparatedNames |-> Join(ReverseSeq(reversedNames), ",")]

\* newReadOnlyCompressionPools
newReadOnlyCompressionPools(nameToPool, reversedNames) ==
    [nameToPool |-> nameToPool,
     commaSeparatedNames |->
        Join(dedupeFromEnd(reversedNames, Len(reversedNames), {}, <<>>), ",")]

\* namedCompressionPools.Get without the identity short-circuit.
GetNoShortCircuit(m, name) ==
    IF name \in DOMAIN m.nameToPool THEN m.nameToPool[name] ELSE NilPool

\* namedCompressionPools.Get
Get(m, name) ==
    IF name = "" \/ name = compressionIdentity THEN NilPool
    ELSE IF name \in DOMAIN m.nameToPool THEN m.nameToPool[name]
    ELSE NilPool

\* namedCompressionPools.Contains
Contains(m, name) == name \in DOMAIN m.nameToPool

\* namedCompressionPools.CommaSeparatedNames
CommaSeparatedNames(m) == m.commaSeparatedNames

\* strings.Split(s, ",") on a joined list
SplitCommas(joined) ==
    [i \in 1..((Len(joined) + 1) \div 2) |-> joined[2 * i - 1]]

(***************************************************************************)
(* Calls. Each goroutine makes one call at a time on the shared objects,   *)
(* with a request and a response of its own.                               *)
(***************************************************************************)
Goroutines == {"g1", "g2"}

IdleCall ==
    [pc |-> "idle", op |-> "", request |-> [Method |-> "", Header |-> EmptyHeader],
     err |-> NilError, name |-> "", before |-> NewResponse(EmptyHeader),
     response |-> NewResponse(EmptyHeader), ret |-> ""]

NoCalls == [g \in Goroutines |-> IdleCall]

\* No Connect protocol function has been applied.
NoProbe == [op |-> "none", in |-> <<>>, out |-> <<>>]

\* No Connect stream is open.
NoStream == [open |-> FALSE]

\* No stream is being received.
NoReceive == [open |-> FALSE]

S_json == <<"j","s","o","n">>
CT_none == <<>>
CT_grpc == grpcContentTypeDefault
CT_grpcBare == grpcContentTypePrefix
CT_grpcJSON == grpcContentTypePrefix \o S_json
CT_grpcInvalid == grpcContentTypePrefix \o <<"i","n","v","a","l","i","d">>
CT_grpcWeb == grpcContentTypeDefault \o <<"-","w","e","b">>
CT_grpcx == grpcContentTypeDefault \o <<"x">>
CT_json == S_application \o S_json
CT_upper == <<"A","p","p","l","i","c","a","t","i","o","n","/","G","R","P","C","+","P","r","o","t","o">>
CT_text == <<"t","e","x","t">>

Methods == {"POST", "GET", "PUT"}

ContentTypes ==
    {CT_none, CT_grpc, CT_grpcBare, CT_grpcJSON, CT_grpcInvalid, CT_grpcWeb,
     CT_grpcx, CT_json, CT_upper, CT_text}

Requests == {Request(m, ct) : m \in Methods, ct \in ContentTypes}

ErrMeta == setHeaderCanonical(EmptyHeader, "X-Err", "v")

Errors ==
    {NilError,
     ConnectError(CodeInternal, "boom", <<>>, EmptyHeader, FALSE),
     ConnectError(CodeNotFound, "50% done", <<>>, ErrMeta, FALSE),
     ConnectError(CodeNotFound, "gone", <<>>, ErrMeta, TRUE),
     ConnectError(CodeInternal, "", <<RetryDetail>>, EmptyHeader, FALSE),
     PlainError("plain")}

\* Header maps a response may hold when it is handed to Write.
InitialHeaders ==
    {EmptyHeader,
     setHeaderCanonical(
        setHeaderCanonical(EmptyHeader, headerContentType, CT_text),
        headerTrailer, <<"X-Old">>)}

Trailers(w, err) == grpcErrorToTrailer(EmptyHeader, w.protobuf, err)

(***************************************************************************)
(* Building a client or handler config from WithInterceptors options.      *)
(***************************************************************************)
SeqsUpTo(S, n) == UNION {[1..k -> S] : k \in 0..n}

InitChain ==
    /\ phase = "options"
    /\ config \in {[kind |-> k, Interceptor |-> NilInterceptor] :
                        k \in {"client", "handler"}}
    /\ applied = <<>>
    /\ supplied = <<>>
    /\ hooks = NoHooks
    /\ writer = NoWriter
    /\ pools = NoPools
    /\ names = <<>>
    /\ calls = NoCalls
    /\ probe = NoProbe
    /\ stream = NoStream
    /\ receive = NoReceive

\* interceptorsOption.applyToClient
applyToClient(interceptors) ==
    /\ phase = "options"
    /\ config.kind = "client"
    /\ Len(applied) < MaxOptions
    /\ Len(supplied) + Len(interceptors) <= MaxSupplied
    /\ config' = [config EXCEPT !.Interceptor =
                        chainWith(WithInterceptors(interceptors), @)]
    /\ applied' = Append(applied, interceptors)
    /\ supplied' = supplied \o interceptors
    /\ UNCHANGED <<connectVars, phase, hooks, sharedVars, calls>>

\* interceptorsOption.applyToHandler
applyToHandler(interceptors) ==
    /\ phase = "options"
    /\ config.kind = "handler"
    /\ Len(applied) < MaxOptions
    /\ Len(supplied) + Len(interceptors) <= MaxSupplied
    /\ config' = [config EXCEPT !.Interceptor =
                        chainWith(WithInterceptors(interceptors), @)]
    /\ applied' = Append(applied, interceptors)
    /\ supplied' = supplied \o interceptors
    /\ UNCHANGED <<connectVars, phase, hooks, sharedVars, calls>>

\* A unary call made with the finished config.
CallUnary ==
    /\ phase = "options"
    /\ phase' = "called"
    /\ hooks' = UnaryHooks(config.Interceptor)
    /\ UNCHANGED <<connectVars, config, applied, supplied, sharedVars, calls>>

\* A stream opened with the finished config: one message sent, one received.
CallStream ==
    /\ phase = "options"
    /\ phase' = "called"
    /\ hooks' = StreamHooks(config.Interceptor)
    /\ UNCHANGED <<connectVars, config, applied, supplied, sharedVars, calls>>

NextChain ==
    \/ \E interceptors \in SeqsUpTo(Recorders, MaxPerOption) :
            applyToClient(interceptors)
    \/ \E interceptors \in SeqsUpTo(Recorders, MaxPerOption) :
            applyToHandler(interceptors)
    \/ CallUnary
    \/ CallStream

SpecChain == InitChain /\ [][NextChain]_vars

Ids(interceptors) == [i \in 1..Len(interceptors) |-> interceptors[i].id]

\* C1: any split of an interceptor list into consecutive WithInterceptors
\* options records the same hook order around a call as the unsplit list
\* applied once to an empty config.
C1_SplitEqualsUnsplit ==
    phase = "called" =>
        LET once == chainWith(WithInterceptors(supplied), NilInterceptor)
        IN  /\ hooks.kind = "unary" => hooks = UnaryHooks(once)
            /\ hooks.kind = "stream" => hooks = StreamHooks(once)

\* C1 witness: A then (B, C) were applied as two options and a call was made.
C1_Witness ==
    /\ phase = "called"
    /\ hooks.kind = "unary"
    /\ applied = <<<<Recorder("A")>>, <<Recorder("B"), Recorder("C")>>>>
    /\ hooks.unary = <<PreHook("A"), PreHook("B"), PreHook("C"), CallHook,
                       PostHook("C"), PostHook("B"), PostHook("A")>>

\* C2: the first interceptor supplied is outermost and each later one is
\* nested inside all earlier ones: pre hooks (and sent messages) run in supply
\* order, post hooks (and received messages) in the reverse order.
C2_FirstIsOutermost ==
    phase = "called" =>
        LET n == Len(supplied)
            ids == Ids(supplied)
        IN  /\ hooks.kind = "unary" =>
                /\ Len(hooks.unary) = 2 * n + 1
                /\ hooks.unary[n + 1] = CallHook
                /\ \A i \in 1..n :
                    /\ hooks.unary[i] = PreHook(ids[i])
                    /\ hooks.unary[2 * n + 2 - i] = PostHook(ids[i])
            /\ hooks.kind = "stream" =>
                /\ hooks.send = ids
                /\ Len(hooks.receive) = n
                /\ \A i \in 1..n : hooks.receive[n + 1 - i] = ids[i]

\* C2 witness: a call through interceptors supplied by more than one option,
\* the later option adding to an interceptor already in the config.
C2_Witness ==
    /\ phase = "called"
    /\ hooks.kind = "stream"
    /\ Len(applied) = 3
    /\ \A i \in 1..3 : Len(applied[i]) = 1
    /\ config.Interceptor.kind = "chain"
    /\ Len(config.Interceptor.interceptors) = 2
    /\ config.Interceptor.interceptors[2].kind = "chain"
    /\ hooks.send = Ids(supplied)

(***************************************************************************)
(* The ErrorWriter used by one caller: every call runs to completion.      *)
(***************************************************************************)
InitWriter ==
    /\ phase = "writer"
    /\ config = [kind |-> "handler", Interceptor |-> NilInterceptor]
    /\ applied = <<>>
    /\ supplied = <<>>
    /\ hooks = NoHooks
    /\ writer \in {NewErrorWriter(b) : b \in BOOLEAN}
    /\ pools = NoPools
    /\ names = <<>>
    /\ calls = NoCalls
    /\ probe = NoProbe
    /\ stream = NoStream
    /\ receive = NoReceive

\* writer.IsSupported(request)
CallIsSupported(request) ==
    /\ calls["g1"].pc = "idle"
    /\ calls' = [calls EXCEPT !["g1"] =
            [IdleCall EXCEPT !.pc = "done", !.op = "IsSupported",
                             !.request = request,
                             !.ret = IsSupported(writer, request)]]
    /\ UNCHANGED <<connectVars, phase, chainVars, sharedVars>>

\* writer.Write(response, request, err)
CallWrite(request, err, header) ==
    /\ calls["g1"].pc = "idle"
    /\ \E keys \in KeyOrders(Trailers(writer, err)) :
        LET out == Write(writer, NewResponse(header), request, err, keys)
        IN  calls' = [calls EXCEPT !["g1"] =
                [IdleCall EXCEPT !.pc = "done", !.op = "Write",
                                 !.request = request, !.err = err,
                                 !.before = NewResponse(header),
                                 !.response = out.response,
                                 !.ret = out.ret]]
    /\ UNCHANGED <<connectVars, phase, chainVars, sharedVars>>

\* The caller takes the result; the goroutine is free for its next call.
Return(g) ==
    /\ calls[g].pc = "done"
    /\ calls' = [calls EXCEPT ![g] = IdleCall]
    /\ UNCHANGED <<connectVars, phase, chainVars, sharedVars>>

NextWriter ==
    \/ \E request \in Requests : CallIsSupported(request)
    \/ \E request \in Requests, err \in Errors, header \in InitialHeaders :
            CallWrite(request, err, header)
    \/ Return("g1")

SpecWriter == InitWriter /\ [][NextWriter]_vars

(***************************************************************************)
(* Properties of the ErrorWriter.                                          *)
(***************************************************************************)
Done(g, op) == calls[g].pc = "done" /\ calls[g].op = op

\* The canonicalized Content-Type of a request.
CanonicalContentType(request) ==
    canonicalizeContentType(getHeaderCanonical(request.Header, headerContentType))

\* application/grpc itself, or application/grpc followed by '+' and anything.
IsGRPCContentType(ctype) ==
    /\ Len(ctype) >= 16
    /\ \A i \in 1..16 : ctype[i] = grpcContentTypeDefault[i]
    /\ Len(ctype) > 16 => ctype[17] = "+"

\* C3: IsSupported is true exactly for a POST request whose canonicalized
\* Content-Type is application/grpc or starts with application/grpc+, an
\* unknown codec suffix such as application/grpc+invalid included.
C3_IsSupportedIffPostGRPC ==
    \A g \in Goroutines :
        Done(g, "IsSupported") =>
            /\ calls[g].ret =
                (/\ calls[g].request.Method = "POST"
                 /\ IsGRPCContentType(CanonicalContentType(calls[g].request)))
            /\ calls[g].request = Request("POST", CT_grpcInvalid)
                    => calls[g].ret = TRUE

\* C3 witness: IsSupported has answered true for application/grpc+invalid.
C3_Witness ==
    /\ Done("g1", "IsSupported")
    /\ calls["g1"].request = Request("POST", CT_grpcInvalid)
    /\ calls["g1"].ret = TRUE

C5_UnknownProtocolGetsConnectJSON ==
    \A g \in Goroutines :
        (Done(g, "Write")
            /\ classifyRequest(writer, calls[g].request) = unknownProtocol) =>
            /\ calls[g].response.body = connectJSONBody(calls[g].err)
            /\ calls[g].response.status # 0

LogOps(response) == [i \in 1..Len(response.log) |-> response.log[i].op]
LogKeys(response) == [i \in 1..Len(response.log) |-> response.log[i].key]

\* C6: for a gRPC request Write sets Content-Type to the request's
\* canonicalized content type, then sets Trailer to exactly the keys of the
\* error's trailers, then writes status 200, and only then merges the
\* trailers into the header map; status and message travel in trailers only.
C6_WriteGRPCOrder ==
    \A g \in Goroutines :
        (Done(g, "Write") /\ IsSupported(writer, calls[g].request)) =>
            LET response == calls[g].response
                trailers == Trailers(writer, calls[g].err)
                announced == SplitCommas(response.sent[headerTrailer][1])
            IN  /\ calls[g].ret = "nil"
                /\ LogOps(response) = <<"set", "set", "status", "merge">>
                /\ LogKeys(response) = <<headerContentType, headerTrailer, "", "">>
                /\ response.status = StatusOK
                /\ response.sent[headerContentType]
                        = <<CanonicalContentType(calls[g].request)>>
                /\ Range(announced) = DOMAIN trailers
                /\ Len(announced) = Cardinality(DOMAIN trailers)
                /\ DOMAIN response.sent =
                        DOMAIN calls[g].before.header
                            \cup {headerContentType, headerTrailer}
                /\ \A k \in DOMAIN trailers :
                        /\ k \notin DOMAIN response.sent
                        /\ response.header[k] = trailers[k]
                /\ grpcHeaderStatus \in DOMAIN trailers
                /\ calls[g].err.kind # "nil" => grpcHeaderMessage \in DOMAIN trailers

\* C6 witness: Write has answered a gRPC request with the trailers of an
\* error carrying metadata of its own.
C6_Witness ==
    /\ Done("g1", "Write")
    /\ calls["g1"].request = Request("POST", CT_grpcInvalid)
    /\ calls["g1"].err = ConnectError(CodeNotFound, "50% done", <<>>, ErrMeta, FALSE)
    /\ calls["g1"].response.header[grpcHeaderMessage] = <<"50%25 done">>
    /\ calls["g1"].response.header[grpcHeaderStatus] = <<"5">>
    /\ "X-Err" \in DOMAIN calls["g1"].response.header

(***************************************************************************)
(* The compression registry used by one caller.                            *)
(***************************************************************************)
MaxNames == 4    \* registrations a registry is built from

CompressionNames == {"a", "b", "c", compressionIdentity}

QueryNames == CompressionNames \cup {"", "zstd"}

\* The pool maps a config can hold for a list of registered names: a pool
\* for each name, less the names whose pool was removed again.
PoolMaps(registered) ==
    {[n \in D |-> PoolFor(n)] : D \in SUBSET Range(registered)}

InitPools ==
    /\ phase = "pools"
    /\ config = [kind |-> "handler", Interceptor |-> NilInterceptor]
    /\ applied = <<>>
    /\ supplied = <<>>
    /\ hooks = NoHooks
    /\ writer = NoWriter
    /\ names \in SeqsUpTo(CompressionNames, MaxNames)
    /\ \E nameToPool \in PoolMaps(names) :
            pools = newReadOnlyCompressionPools(nameToPool, names)
    /\ calls = NoCalls
    /\ probe = NoProbe
    /\ stream = NoStream
    /\ receive = NoReceive

\* pools.Get(name)
CallGet(name) ==
    /\ calls["g1"].pc = "idle"
    /\ calls' = [calls EXCEPT !["g1"] =
            [IdleCall EXCEPT !.pc = "done", !.op = "Get", !.name = name,
                             !.ret = Get(pools, name)]]
    /\ UNCHANGED <<connectVars, phase, chainVars, sharedVars>>

\* pools.Contains(name)
CallContains(name) ==
    /\ calls["g1"].pc = "idle"
    /\ calls' = [calls EXCEPT !["g1"] =
            [IdleCall EXCEPT !.pc = "done", !.op = "Contains", !.name = name,
                             !.ret = Contains(pools, name)]]
    /\ UNCHANGED <<connectVars, phase, chainVars, sharedVars>>

\* pools.CommaSeparatedNames()
CallCommaSeparatedNames ==
    /\ calls["g1"].pc = "idle"
    /\ calls' = [calls EXCEPT !["g1"] =
            [IdleCall EXCEPT !.pc = "done", !.op = "CommaSeparatedNames",
                             !.ret = CommaSeparatedNames(pools)]]
    /\ UNCHANGED <<connectVars, phase, chainVars, sharedVars>>

NextPools ==
    \/ \E name \in QueryNames : CallGet(name)
    \/ \E name \in QueryNames : CallContains(name)
    \/ CallCommaSeparatedNames
    \/ Return("g1")

SpecPools == InitPools /\ [][NextPools]_vars

(***************************************************************************)
(* Properties of the compression registry.                                 *)
(***************************************************************************)
\* The position of the last registration of a name.
LastIndex(registered, name) ==
    CHOOSE i \in 1..Len(registered) :
        /\ registered[i] = name
        /\ \A j \in (i + 1)..Len(registered) : registered[j] # name

\* C8: CommaSeparatedNames() lists every distinct registered name exactly
\* once, the most recently registered name first, ordered by decreasing
\* position of last registration.
C8_AdvertisedNamesReversedDeduped ==
    \A g \in Goroutines :
        Done(g, "CommaSeparatedNames") =>
            LET advertised == SplitCommas(calls[g].ret)
            IN  /\ Range(advertised) = Range(names)
                /\ Len(advertised) = Cardinality(Range(names))
                /\ names # <<>> => advertised[1] = names[Len(names)]
                /\ \A i, j \in 1..Len(advertised) :
                        i < j => LastIndex(names, advertised[i])
                                    > LastIndex(names, advertised[j])

\* C8 witness: the names of a registry built from a list with a repeated name
\* have been read.
C8_Witness ==
    /\ Done("g1", "CommaSeparatedNames")
    /\ names = <<"b", "a", "b", compressionIdentity>>
    /\ calls["g1"].ret = <<compressionIdentity, ",", "b", ",", "a">>

RegisteredABAC == <<"a", "b", "a", "c">>

\* C9 as stated: registering a, b, a, c with pools for a, b and c advertises
\* c, b, a, and Contains is true for exactly a, b and c.
C9_RegisterABAC_AsStated ==
    \A g \in Goroutines :
        (names = RegisteredABAC /\ DOMAIN pools.nameToPool = {"a", "b", "c"}) =>
            /\ Done(g, "CommaSeparatedNames") =>
                    calls[g].ret = <<"c", ",", "b", ",", "a">>
            /\ Done(g, "Contains") =>
                    calls[g].ret = (calls[g].name \in {"a", "b", "c"})

\* C9, amended: registering a, b, a, c with pools for a, b and c advertises
\* c, a, b (a's last registration is more recent than b's), and Contains is
\* true for exactly a, b and c.
C9_RegisterABAC ==
    \A g \in Goroutines :
        (names = RegisteredABAC /\ DOMAIN pools.nameToPool = {"a", "b", "c"}) =>
            /\ Done(g, "CommaSeparatedNames") =>
                    calls[g].ret = <<"c", ",", "a", ",", "b">>
            /\ Done(g, "Contains") =>
                    calls[g].ret = (calls[g].name \in {"a", "b", "c"})

\* C9 witness: the advertised names of that registry have been read.
C9_Witness ==
    /\ names = RegisteredABAC
    /\ DOMAIN pools.nameToPool = {"a", "b", "c"}
    /\ Done("g1", "CommaSeparatedNames")
    /\ SplitCommas(calls["g1"].ret) = <<"c", "a", "b">>

\* C10: Get("identity") and Get("") return no pool even when one is
\* registered; for any other name Get returns the registered pool, and a
\* pool returned by Get is for a name Contains accepts.
C10_GetShortCircuitsIdentity ==
    \A g \in Goroutines :
        Done(g, "Get") =>
            LET name == calls[g].name
            IN  /\ name \in {"", "identity"} => calls[g].ret = NilPool
                /\ (name \notin {"", "identity"} /\ name \in DOMAIN pools.nameToPool)
                        => calls[g].ret = pools.nameToPool[name]
                /\ calls[g].ret # NilPool => Contains(pools, name)

\* C10 witness: Get("identity") has returned nil on a registry that holds a
\* pool under that name.
C10_Witness ==
    /\ Done("g1", "Get")
    /\ calls["g1"].name = compressionIdentity
    /\ calls["g1"].ret = NilPool
    /\ Contains(pools, compressionIdentity)

(***************************************************************************)
(* One ErrorWriter and one registry shared by several goroutines. A call   *)
(* to Write proceeds statement by statement, interleaved with the other    *)
(* goroutines' calls.                                                      *)
(***************************************************************************)
SharedRequests ==
    {Request("POST", CT_grpc), Request("POST", CT_grpcInvalid),
     Request("GET", CT_grpc), Request("POST", CT_json)}

SharedErrors ==
    {NilError, ConnectError(CodeNotFound, "50% done", <<>>, ErrMeta, FALSE)}

SharedRegistrations ==
    {<<>>, <<"a", compressionIdentity, "a">>, RegisteredABAC}

InitShared ==
    /\ phase = "shared"
    /\ config = [kind |-> "handler", Interceptor |-> NilInterceptor]
    /\ applied = <<>>
    /\ supplied = <<>>
    /\ hooks = NoHooks
    /\ writer = NewErrorWriter(FALSE)
    /\ names \in SharedRegistrations
    /\ pools = newReadOnlyCompressionPools(
                    [n \in Range(names) |-> PoolFor(n)], names)
    /\ calls = NoCalls
    /\ probe = NoProbe
    /\ stream = NoStream
    /\ receive = NoReceive

\* ErrorWriter.IsSupported, called by goroutine g
GoIsSupported(g, request) ==
    /\ calls[g].pc = "idle"
    /\ calls' = [calls EXCEPT ![g] =
            [IdleCall EXCEPT !.pc = "done", !.op = "IsSupported",
                             !.request = request,
                             !.ret = IsSupported(writer, request)]]
    /\ UNCHANGED <<connectVars, phase, chainVars, sharedVars>>

\* Goroutine g enters ErrorWriter.Write.
GoWrite(g, request, err, header) ==
    /\ calls[g].pc = "idle"
    /\ calls' = [calls EXCEPT ![g] =
            [IdleCall EXCEPT !.pc = "Write", !.op = "Write",
                             !.request = request, !.err = err,
                             !.before = NewResponse(header),
                             !.response = NewResponse(header)]]
    /\ UNCHANGED <<connectVars, phase, chainVars, sharedVars>>

\* Write, lines 82-91: classify the request; a gRPC request gets its content
\* type echoed and goes on to writeGRPC, any other returns nil.
WriteClassify(g) ==
    /\ calls[g].pc = "Write"
    /\ IF classifyRequest(writer, calls[g].request) = grpcProtocol
       THEN calls' = [calls EXCEPT
                ![g].pc = "writeGRPC",
                ![g].response =
                    writeSetContentType(writer, @, calls[g].request)]
       ELSE calls' = [calls EXCEPT ![g].pc = "done", ![g].ret = "nil"]
    /\ UNCHANGED <<connectVars, phase, chainVars, sharedVars>>

\* writeGRPC, lines 95-104
GRPCAnnounce(g) ==
    /\ calls[g].pc = "writeGRPC"
    /\ \E keys \in KeyOrders(Trailers(writer, calls[g].err)) :
        calls' = [calls EXCEPT
            ![g].pc = "WriteHeader",
            ![g].response = writeGRPCAnnounce(writer, @, calls[g].err, keys)]
    /\ UNCHANGED <<connectVars, phase, chainVars, sharedVars>>

\* writeGRPC, line 105
GRPCStatus(g) ==
    /\ calls[g].pc = "WriteHeader"
    /\ calls' = [calls EXCEPT
            ![g].pc = "mergeHeaders",
            ![g].response = writeGRPCStatus(writer, @)]
    /\ UNCHANGED <<connectVars, phase, chainVars, sharedVars>>

\* writeGRPC, lines 106-107
GRPCMerge(g) ==
    /\ calls[g].pc = "mergeHeaders"
    /\ calls' = [calls EXCEPT
            ![g].pc = "done",
            ![g].ret = "nil",
            ![g].response = writeGRPCMerge(writer, @, calls[g].err)]
    /\ UNCHANGED <<connectVars, phase, chainVars, sharedVars>>

\* namedCompressionPools.Get dropping the entry it hands out from the map.
GoGetEvicting(g, name) ==
    /\ calls[g].pc = "idle"
    /\ calls' = [calls EXCEPT ![g] =
            [IdleCall EXCEPT !.pc = "done", !.op = "Get", !.name = name,
                             !.ret = Get(pools, name)]]
    /\ pools' = [pools EXCEPT !.nameToPool =
                    [n \in DOMAIN @ \ {name} |-> @[n]]]
    /\ UNCHANGED <<connectVars, phase, chainVars, writer, names>>

\* namedCompressionPools.Get, called by goroutine g
GoGet(g, name) ==
    /\ calls[g].pc = "idle"
    /\ calls' = [calls EXCEPT ![g] =
            [IdleCall EXCEPT !.pc = "done", !.op = "Get", !.name = name,
                             !.ret = Get(pools, name)]]
    /\ UNCHANGED <<connectVars, phase, chainVars, sharedVars>>

\* namedCompressionPools.Contains, called by goroutine g
GoContains(g, name) ==
    /\ calls[g].pc = "idle"
    /\ calls' = [calls EXCEPT ![g] =
            [IdleCall EXCEPT !.pc = "done", !.op = "Contains", !.name = name,
                             !.ret = Contains(pools, name)]]
    /\ UNCHANGED <<connectVars, phase, chainVars, sharedVars>>

\* namedCompressionPools.CommaSeparatedNames, called by goroutine g
GoCommaSeparatedNames(g) ==
    /\ calls[g].pc = "idle"
    /\ calls' = [calls EXCEPT ![g] =
            [IdleCall EXCEPT !.pc = "done", !.op = "CommaSeparatedNames",
                             !.ret = CommaSeparatedNames(pools)]]
    /\ UNCHANGED <<connectVars, phase, chainVars, sharedVars>>

NextShared ==
    \E g \in Goroutines :
        \/ \E request \in SharedRequests : GoIsSupported(g, request)
        \/ \E request \in SharedRequests, err \in SharedErrors :
                GoWrite(g, request, err, EmptyHeader)
        \/ WriteClassify(g)
        \/ GRPCAnnounce(g)
        \/ GRPCStatus(g)
        \/ GRPCMerge(g)
        \/ \E name \in QueryNames : GoGet(g, name)
        \/ \E name \in QueryNames : GoContains(g, name)
        \/ GoCommaSeparatedNames(g)
        \/ Return(g)

SpecShared == InitShared /\ [][NextShared]_vars

\* What a finished call holds is what the same call yields when it runs
\* alone, from start to end, on the writer w and the registry m.
AsWhenAlone(w, m, call) ==
    CASE call.op = "IsSupported" -> call.ret = IsSupported(w, call.request)
      [] call.op = "Write" ->
            \E keys \in KeyOrders(Trailers(w, call.err)) :
                LET out == Write(w, call.before, call.request, call.err, keys)
                IN  call.response = out.response /\ call.ret = out.ret
      [] call.op = "Get" -> call.ret = Get(m, call.name)
      [] call.op = "Contains" -> call.ret = Contains(m, call.name)
      [] call.op = "CommaSeparatedNames" -> call.ret = CommaSeparatedNames(m)
      [] OTHER -> FALSE

\* The registry as newReadOnlyCompressionPools built it.
RegistryAsBuilt ==
    newReadOnlyCompressionPools([n \in Range(names) |-> PoolFor(n)], names)

\* C7: under any interleaving of calls on one ErrorWriter and one registry,
\* no step writes a field of either, and every finished call holds the
\* result and response the same call yields when run alone.
C7_SharedObjectsAreReadOnly ==
    [][/\ writer' = writer
       /\ pools' = pools
       /\ \A g \in Goroutines :
            calls'[g].pc = "done" =>
                AsWhenAlone(NewErrorWriter(FALSE), RegistryAsBuilt, calls'[g])]_vars

\* C7 witness: one goroutine has finished a gRPC Write while the other is in
\* the middle of its own, and the registry has been read in between.
C7_Witness ==
    /\ Done("g1", "Write")
    /\ calls["g1"].response.status = StatusOK
    /\ calls["g2"].op = "Write"
    /\ calls["g2"].pc = "WriteHeader"
    /\ calls["g1"].request # calls["g2"].request

(***************************************************************************)
(* The Connect protocol (protocol_connect.go): response content types.     *)
(***************************************************************************)
codecNameJSON == S_json
codecNameJSONCharsetUTF8 ==
    codecNameJSON \o <<";"," ","c","h","a","r","s","e","t","=","u","t","f","-","8">>
codecNameProto == <<"p","r","o","t","o">>

connectUnaryContentTypePrefix == S_application
connectUnaryContentTypeJSON == connectUnaryContentTypePrefix \o codecNameJSON
connectStreamingContentTypePrefix ==
    S_application \o <<"c","o","n","n","e","c","t","+">>

StreamTypeUnary == "unary"
StreamTypeClient == "client"
StreamTypeServer == "server"
StreamTypeBidi == "bidi"

\* strings.TrimPrefix
TrimPrefix(s, prefix) ==
    IF HasPrefix(s, prefix) THEN SubSeq(s, Len(prefix) + 1, Len(s)) ELSE s

\* NewError(code, errors.New(message))
NewError(code, message) == ConnectError(code, message, <<>>, EmptyHeader, FALSE)

\* NewWireError(code, errors.New(message))
NewWireError(code, message) == ConnectError(code, message, <<>>, EmptyHeader, TRUE)

\* errorf(code, template, args...): the message is the template with its
\* arguments, kept apart.
errorf(code, template, args) == NewError(code, <<template>> \o args)

errNotModifiedClient == "not modified"

\* httpToCode: the Connect code a client infers from a bare HTTP status.
httpToCode(httpCode) ==
    CASE httpCode = 400 -> CodeInternal
      [] httpCode = 401 -> CodeUnauthenticated
      [] httpCode = 403 -> CodePermissionDenied
      [] httpCode = 404 -> CodeUnimplemented
      [] httpCode = 429 -> CodeUnavailable
      [] httpCode \in {502, 503, 504} -> CodeUnavailable
      [] OTHER -> CodeUnknown

connectCodecForContentTypeUnaryOnly(streamType, contentType) ==
    TrimPrefix(contentType, connectUnaryContentTypePrefix)

connectCodecForContentType(streamType, contentType) ==
    IF streamType = StreamTypeUnary
    THEN TrimPrefix(contentType, connectUnaryContentTypePrefix)
    ELSE TrimPrefix(contentType, connectStreamingContentTypePrefix)

InvalidContentType == "invalid content-type: %q; expecting %q"

\* Variants of the unary validation: a 200 response with and without the
\* allowance for the two spellings of JSON.
validateUnaryOK(requestCodecName, responseContentType, bothJSON) ==
    IF ~HasPrefix(responseContentType, connectUnaryContentTypePrefix)
    THEN errorf(CodeUnknown, InvalidContentType,
                <<responseContentType,
                  connectUnaryContentTypePrefix \o requestCodecName>>)
    ELSE LET responseCodecName ==
                 connectCodecForContentType(StreamTypeUnary, responseContentType)
         IN  IF responseCodecName = requestCodecName THEN NilError
             ELSE IF /\ bothJSON
                     /\ \/ /\ responseCodecName = codecNameJSON
                           /\ requestCodecName = codecNameJSONCharsetUTF8
                        \/ /\ responseCodecName = codecNameJSONCharsetUTF8
                           /\ requestCodecName = codecNameJSON
             THEN NilError
             ELSE errorf(CodeInternal, InvalidContentType,
                         <<responseContentType,
                           connectUnaryContentTypePrefix \o requestCodecName>>)

\* Variants of the unary validation: a response that is not 200, by the
\* methods that may see "not modified" and the content types an error
\* response may have.
validateUnaryNotOK(httpMethod, statusCode, statusMsg, responseContentType, notModifiedMethods, jsonTypes) ==
    IF statusCode = 304 /\ httpMethod \in notModifiedMethods
    THEN NewWireError(CodeUnknown, errNotModifiedClient)
    ELSE IF responseContentType \in jsonTypes THEN NilError
    ELSE NewError(httpToCode(statusCode), statusMsg)

ErrorContentTypes ==
    {connectUnaryContentTypePrefix \o codecNameJSON,
     connectUnaryContentTypePrefix \o codecNameJSONCharsetUTF8}

connectValidateUnaryResponseContentTypeStrict(requestCodecName, httpMethod, statusCode, statusMsg, responseContentType) ==
    IF statusCode # 200
    THEN validateUnaryNotOK(httpMethod, statusCode, statusMsg,
                            responseContentType, {"GET"}, ErrorContentTypes)
    ELSE validateUnaryOK(requestCodecName, responseContentType, FALSE)

connectValidateUnaryResponseContentTypeAnyMethod(requestCodecName, httpMethod, statusCode, statusMsg, responseContentType) ==
    IF statusCode # 200
    THEN validateUnaryNotOK(httpMethod, statusCode, statusMsg,
                            responseContentType, Methods, ErrorContentTypes)
    ELSE validateUnaryOK(requestCodecName, responseContentType, TRUE)

connectValidateUnaryResponseContentTypeOneJSON(requestCodecName, httpMethod, statusCode, statusMsg, responseContentType) ==
    IF statusCode # 200
    THEN validateUnaryNotOK(httpMethod, statusCode, statusMsg,
                            responseContentType, {"GET"},
                            {connectUnaryContentTypeJSON})
    ELSE validateUnaryOK(requestCodecName, responseContentType, TRUE)

connectValidateUnaryResponseContentType(requestCodecName, httpMethod, statusCode, statusMsg, responseContentType) ==
    IF statusCode # 200
    THEN IF statusCode = 304 /\ httpMethod = "GET"
         THEN NewWireError(CodeUnknown, errNotModifiedClient)
         ELSE IF \/ responseContentType =
                        connectUnaryContentTypePrefix \o codecNameJSON
                 \/ responseContentType =
                        connectUnaryContentTypePrefix \o codecNameJSONCharsetUTF8
         THEN NilError
         ELSE NewError(httpToCode(statusCode), statusMsg)
    ELSE IF ~HasPrefix(responseContentType, connectUnaryContentTypePrefix)
    THEN errorf(CodeUnknown, InvalidContentType,
                <<responseContentType,
                  connectUnaryContentTypePrefix \o requestCodecName>>)
    ELSE LET responseCodecName ==
                 connectCodecForContentType(StreamTypeUnary, responseContentType)
         IN  IF responseCodecName = requestCodecName THEN NilError
             ELSE IF \/ /\ responseCodecName = codecNameJSON
                        /\ requestCodecName = codecNameJSONCharsetUTF8
                     \/ /\ responseCodecName = codecNameJSONCharsetUTF8
                        /\ requestCodecName = codecNameJSON
             THEN NilError
             ELSE errorf(CodeInternal, InvalidContentType,
                         <<responseContentType,
                           connectUnaryContentTypePrefix \o requestCodecName>>)

connectValidateStreamResponseContentType(requestCodecName, streamType, responseContentType) ==
    IF ~HasPrefix(responseContentType, connectStreamingContentTypePrefix)
    THEN errorf(CodeUnknown, InvalidContentType,
                <<responseContentType,
                  connectStreamingContentTypePrefix \o requestCodecName>>)
    ELSE LET responseCodecName ==
                 connectCodecForContentType(streamType, responseContentType)
         IN  IF responseCodecName # requestCodecName
             THEN errorf(CodeInternal, InvalidContentType,
                         <<responseContentType,
                           connectStreamingContentTypePrefix \o requestCodecName>>)
             ELSE NilError

(***************************************************************************)
(* The Connect protocol: status codes and the protocol version.            *)
(***************************************************************************)
connectCodeToHTTPPrecondition(code) ==
    CASE code = CodeCanceled -> 499
      [] code = CodeUnknown -> 500
      [] code = CodeInvalidArgument -> 400
      [] code = CodeDeadlineExceeded -> 504
      [] code = CodeNotFound -> 404
      [] code = CodeAlreadyExists -> 409
      [] code = CodePermissionDenied -> 403
      [] code = CodeResourceExhausted -> 429
      [] code = CodeFailedPrecondition -> 412
      [] code = CodeAborted -> 409
      [] code = CodeOutOfRange -> 400
      [] code = CodeUnimplemented -> 501
      [] code = CodeInternal -> 500
      [] code = CodeUnavailable -> 503
      [] code = CodeDataLoss -> 500
      [] code = CodeUnauthenticated -> 401
      [] OTHER -> 500

connectCodeToHTTP(code) ==
    CASE code = CodeCanceled -> 499
      [] code = CodeUnknown -> 500
      [] code = CodeInvalidArgument -> 400
      [] code = CodeDeadlineExceeded -> 504
      [] code = CodeNotFound -> 404
      [] code = CodeAlreadyExists -> 409
      [] code = CodePermissionDenied -> 403
      [] code = CodeResourceExhausted -> 429
      [] code = CodeFailedPrecondition -> 400
      [] code = CodeAborted -> 409
      [] code = CodeOutOfRange -> 400
      [] code = CodeUnimplemented -> 501
      [] code = CodeInternal -> 500
      [] code = CodeUnavailable -> 503
      [] code = CodeDataLoss -> 500
      [] code = CodeUnauthenticated -> 401
      [] OTHER -> 500

connectHeaderProtocolVersion == "Connect-Protocol-Version"
connectProtocolVersion == <<"1">>
connectUnaryConnectQueryParameter == "connect"
connectUnaryConnectQueryValue == <<"v">> \o connectProtocolVersion

\* An *http.Request as connectCheckProtocolVersion reads it: the method, the
\* query parameters of the URL and the header.
VersionRequest(method, query, header) ==
    [Method |-> method, Query |-> query, Header |-> header]

\* url.Values.Get: the first value under the key, or "".
queryGet(values, key) ==
    IF key \in DOMAIN values /\ values[key] # <<>> THEN values[key][1] ELSE <<>>

MissingParameter == "missing required query parameter: set %s to %q"
MissingHeader == "missing required header: set %s to %q"
MustBe == "%s must be %q: got %q"

connectCheckProtocolVersionWhenRequired(request, required) ==
    CASE request.Method = "GET" ->
            LET version == queryGet(request.Query, connectUnaryConnectQueryParameter)
            IN  IF version = <<>> /\ required
                THEN errorf(CodeInvalidArgument, MissingParameter,
                            <<connectUnaryConnectQueryParameter,
                              connectUnaryConnectQueryValue>>)
                ELSE IF required /\ version # connectUnaryConnectQueryValue
                THEN errorf(CodeInvalidArgument, MustBe,
                            <<connectUnaryConnectQueryParameter,
                              connectUnaryConnectQueryValue, version>>)
                ELSE NilError
      [] request.Method = "POST" ->
            LET version == getHeaderCanonical(request.Header,
                                              connectHeaderProtocolVersion)
            IN  IF version = <<>> /\ required
                THEN errorf(CodeInvalidArgument, MissingHeader,
                            <<connectHeaderProtocolVersion, connectProtocolVersion>>)
                ELSE IF required /\ version # connectProtocolVersion
                THEN errorf(CodeInvalidArgument, MustBe,
                            <<connectHeaderProtocolVersion,
                              connectProtocolVersion, version>>)
                ELSE NilError
      [] OTHER ->
            errorf(CodeInvalidArgument, "unsupported method: %q",
                   <<request.Method>>)

connectCheckProtocolVersion(request, required) ==
    CASE request.Method = "GET" ->
            LET version == queryGet(request.Query, connectUnaryConnectQueryParameter)
            IN  IF version = <<>> /\ required
                THEN errorf(CodeInvalidArgument, MissingParameter,
                            <<connectUnaryConnectQueryParameter,
                              connectUnaryConnectQueryValue>>)
                ELSE IF version # <<>> /\ version # connectUnaryConnectQueryValue
                THEN errorf(CodeInvalidArgument, MustBe,
                            <<connectUnaryConnectQueryParameter,
                              connectUnaryConnectQueryValue, version>>)
                ELSE NilError
      [] request.Method = "POST" ->
            LET version == getHeaderCanonical(request.Header,
                                              connectHeaderProtocolVersion)
            IN  IF version = <<>> /\ required
                THEN errorf(CodeInvalidArgument, MissingHeader,
                            <<connectHeaderProtocolVersion, connectProtocolVersion>>)
                ELSE IF version # <<>> /\ version # connectProtocolVersion
                THEN errorf(CodeInvalidArgument, MustBe,
                            <<connectHeaderProtocolVersion,
                              connectProtocolVersion, version>>)
                ELSE NilError
      [] OTHER ->
            errorf(CodeInvalidArgument, "unsupported method: %q",
                   <<request.Method>>)

(***************************************************************************)
(* Base64 (encoding/base64), on bytes 0..255 and texts of characters.      *)
(***************************************************************************)
Digits == <<"0","1","2","3","4","5","6","7","8","9">>
encodeStd == UpperLetters \o LowerLetters \o Digits \o <<"+","/">>

IsBase64Char(c) == \E i \in 1..Len(encodeStd) : encodeStd[i] = c
\* The six bits a character stands for.
Sextet(c) == (CHOOSE i \in 1..Len(encodeStd) : encodeStd[i] = c) - 1
Base64Char(sextet) == encodeStd[sextet + 1]

\* base64.RawStdEncoding.EncodeToString: three bytes make four characters;
\* one or two bytes left over make two or three, without padding.
RECURSIVE RawStdEncode(_)
RawStdEncode(src) ==
    IF Len(src) = 0 THEN <<>>
    ELSE IF Len(src) = 1
    THEN <<Base64Char(src[1] \div 4), Base64Char((src[1] % 4) * 16)>>
    ELSE IF Len(src) = 2
    THEN <<Base64Char(src[1] \div 4),
           Base64Char((src[1] % 4) * 16 + src[2] \div 16),
           Base64Char((src[2] % 16) * 4)>>
    ELSE <<Base64Char(src[1] \div 4),
           Base64Char((src[1] % 4) * 16 + src[2] \div 16),
           Base64Char((src[2] % 16) * 4 + src[3] \div 64),
           Base64Char(src[3] % 64)>>
         \o RawStdEncode(SubSeq(src, 4, Len(src)))

\* The bytes of well-formed unpadded text; bits left over are dropped.
RECURSIVE DecodeQuanta(_)
DecodeQuanta(s) ==
    IF Len(s) < 2 THEN <<>>
    ELSE LET b1 == Sextet(s[1]) * 4 + Sextet(s[2]) \div 16
         IN  IF Len(s) = 2 THEN <<b1>>
             ELSE LET b2 == (Sextet(s[2]) % 16) * 16 + Sextet(s[3]) \div 4
                  IN  IF Len(s) = 3 THEN <<b1, b2>>
                      ELSE <<b1, b2, (Sextet(s[3]) % 4) * 64 + Sextet(s[4])>>
                           \o DecodeQuanta(SubSeq(s, 5, Len(s)))

DecodeError == [ok |-> FALSE, value |-> <<>>]

\* base64.RawStdEncoding.DecodeString
RawStdDecode(s) ==
    IF (\A i \in 1..Len(s) : IsBase64Char(s[i])) /\ Len(s) % 4 # 1
    THEN [ok |-> TRUE, value |-> DecodeQuanta(s)]
    ELSE DecodeError

\* base64.StdEncoding.DecodeString: the text is a whole number of
\* four-character groups, the last of them padded with "=" where the data
\* ran out.
StdDecode(s) ==
    IF Len(s) % 4 # 0 THEN DecodeError
    ELSE LET padding == IF Len(s) > 0 /\ s[Len(s)] = "="
                        THEN IF s[Len(s) - 1] = "=" THEN 2 ELSE 1
                        ELSE 0
         IN  RawStdDecode(SubSeq(s, 1, Len(s) - padding))

\* DecodeBinaryHeader: text whose length is no multiple of four cannot be
\* padded; any other goes through the decoder that understands padding.
DecodeBinaryHeader(data) ==
    IF Len(data) % 4 # 0 THEN RawStdDecode(data) ELSE StdDecode(data)

(***************************************************************************)
(* JSON text (encoding/json). A text is kept as the document it spells:    *)
(* a string, a number, null, an array of texts, or an object with its      *)
(* members in the order written, duplicates and unknown keys included, and *)
(* whether it is written with insignificant whitespace.                    *)
(***************************************************************************)
JString(s) == [t |-> "string", v |-> s]
JNumber(n) == [t |-> "number", v |-> n]
JNull == [t |-> "null"]
JArray(elems) == [t |-> "array", elems |-> elems]
JMember(key, value) == [key |-> key, value |-> value]
JObject(members, spaced) ==
    [t |-> "object", members |-> members, spaced |-> spaced]
\* The text a codec writes for an unpacked message.
JMessage(typeUrl, value) == [t |-> "message", typeUrl |-> typeUrl, value |-> value]

\* json.Compact, which json.Marshal applies to what a MarshalJSON method
\* returns: insignificant whitespace is removed, here from the object and
\* from the objects in it.
compact(text) ==
    IF text.t = "object"
    THEN JObject([i \in 1..Len(text.members) |->
                      IF text.members[i].value.t = "object"
                      THEN JMember(text.members[i].key,
                                   [text.members[i].value EXCEPT !.spaced = FALSE])
                      ELSE text.members[i]],
                 FALSE)
    ELSE text

\* The member json.Unmarshal stores into the field tagged key: of the
\* members with that key the last one written; null and absence leave the
\* field alone.
RECURSIVE lookupMember(_, _, _)
lookupMember(members, key, i) ==
    IF i = 0 THEN JNull
    ELSE IF members[i].key = key /\ members[i].value.t # "null"
    THEN members[i].value
    ELSE lookupMember(members, key, i - 1)

\* The members of an object; null, which json.Unmarshal passes over, has none.
jsonMembers(text) == IF text.t = "object" THEN text.members ELSE <<>>

jsonField(text, key) ==
    lookupMember(jsonMembers(text), key, Len(jsonMembers(text)))

\* Whether json.Unmarshal can store every member tagged key into a field of
\* the kind: each written value is of the kind or null.
jsonFieldFits(text, key, kind) ==
    \A i \in 1..Len(jsonMembers(text)) :
        jsonMembers(text)[i].key = key
            => jsonMembers(text)[i].value.t \in {kind, "null"}

\* The value of a string field after json.Unmarshal into a fresh struct;
\* empty is the empty string.
jsonStringField(text, key, empty) ==
    IF jsonField(text, key).t = "string" THEN jsonField(text, key).v ELSE empty

(***************************************************************************)
(* The Connect protocol: errors on the wire.                               *)
(***************************************************************************)
\* Code.String: the name of each of the sixteen codes, as one token.
CodeNames ==
    <<"canceled", "unknown", "invalid_argument", "deadline_exceeded",
      "not_found", "already_exists", "permission_denied",
      "resource_exhausted", "failed_precondition", "aborted", "out_of_range",
      "unimplemented", "internal", "unavailable", "data_loss",
      "unauthenticated">>

\* Code.MarshalText: the name, or "code_" and the number for any other value.
CodeMarshalText(code) ==
    IF code \in minCode..maxCode THEN <<CodeNames[code]>>
    ELSE <<"code_", Itoa(code)>>

\* Code.UnmarshalText: a name gives its code, "code_" followed by a number
\* gives that number, anything else is an error.
CodeUnmarshalText(text) ==
    IF \E code \in minCode..maxCode : text = <<CodeNames[code]>>
    THEN [ok |-> TRUE,
          code |-> CHOOSE code \in minCode..maxCode : text = <<CodeNames[code]>>]
    ELSE IF /\ Len(text) = 2
            /\ text[1] = "code_"
            /\ \E n \in 0..Len(Numerals) : Itoa(n) = text[2]
    THEN [ok |-> TRUE, code |-> CHOOSE n \in 0..Len(Numerals) : Itoa(n) = text[2]]
    ELSE [ok |-> FALSE, code |-> 0]

\* typeNameForURL: what follows the last '/' of a type URL.
typeNameForURL(url) ==
    LET slashes == {i \in 1..Len(url) : url[i] = "/"}
        last == IF slashes = {} THEN 0
                ELSE CHOOSE i \in slashes : \A j \in slashes : j <= i
    IN  SubSeq(url, last + 1, Len(url))

\* The message types the program has linked in.
RegisteredTypes == {S_rpcRetry}

\* connectWireDetail.getInner succeeds: the unpacked message is at hand, or
\* the packed one can be unpacked.
getInner(d) ==
    d.pbInner \/ typeNameForURL(d.pbAny.TypeUrl) \in RegisteredTypes

connectWireDetailMarshalJSONRebuilt(d) ==
    JObject(<<JMember("type", JString(typeNameForURL(d.pbAny.TypeUrl))),
              JMember("value", JString(RawStdEncode(d.pbAny.Value)))>>
            \o (IF getInner(d)
                THEN <<JMember("debug", JMessage(d.pbAny.TypeUrl, d.pbAny.Value))>>
                ELSE <<>>),
            FALSE)

\* connectWireDetail.MarshalJSON
connectWireDetailMarshalJSON(d) ==
    IF d.wireJSON # NoJSON THEN d.wireJSON
    ELSE JObject(<<JMember("type", JString(typeNameForURL(d.pbAny.TypeUrl))),
                   JMember("value", JString(RawStdEncode(d.pbAny.Value)))>>
                 \o (IF getInner(d)
                     THEN <<JMember("debug",
                                    JMessage(d.pbAny.TypeUrl, d.pbAny.Value))>>
                     ELSE <<>>),
                 FALSE)

NoDetail == [ok |-> FALSE, detail |-> ErrorDetail(<<>>, <<>>, FALSE, NoJSON)]

\* connectWireDetail.UnmarshalJSON
connectWireDetailUnmarshalJSON(data) ==
    IF \/ data.t \notin {"object", "null"}
       \/ ~jsonFieldFits(data, "type", "string")
       \/ ~jsonFieldFits(data, "value", "string")
    THEN NoDetail
    ELSE LET wireType == jsonStringField(data, "type", <<>>)
             typeUrl == IF "/" \notin Range(wireType)
                        THEN defaultAnyResolverPrefix \o wireType
                        ELSE wireType
             decoded == DecodeBinaryHeader(jsonStringField(data, "value", <<>>))
         IN  IF ~decoded.ok THEN NoDetail
             ELSE [ok |-> TRUE,
                   detail |-> ErrorDetail(typeUrl, decoded.value, FALSE, data)]

\* A connectWireError, and the nil pointer to one.
WireError(code, message, details) ==
    [Code |-> code, Message |-> message, Details |-> details]
NilWireError == [Code |-> 0, Message |-> "", Details |-> <<>>, nil |-> TRUE]

newConnectWireErrorUnknown(err) ==
    WireError(CodeUnknown, err.message, <<>>)

\* newConnectWireError
newConnectWireError(err) ==
    IF err.kind = "connect"
    THEN WireError(err.code, err.message, err.details)
    ELSE WireError(CodeUnknown, err.message, <<>>)

connectWireErrorAsErrorUnclamped(e) ==
    IF e = NilWireError THEN NilError
    ELSE ConnectError(e.Code, e.Message, e.Details, EmptyHeader, TRUE)

\* connectWireError.asError
connectWireErrorAsError(e) ==
    IF e = NilWireError THEN NilError
    ELSE LET code == IF e.Code < minCode \/ e.Code > maxCode
                     THEN CodeUnknown ELSE e.Code
         IN  ConnectError(code, e.Message, e.Details, EmptyHeader, TRUE)

\* json.Marshal of a connectWireError: the code as text, the message unless
\* empty, the details unless there are none, each as its MarshalJSON writes it.
connectWireErrorMarshalJSON(e) ==
    JObject(<<JMember("code", JString(CodeMarshalText(e.Code)))>>
            \o (IF e.Message # ""
                THEN <<JMember("message", JString(e.Message))>> ELSE <<>>)
            \o (IF e.Details # <<>>
                THEN <<JMember("details",
                        JArray([i \in 1..Len(e.Details) |->
                            compact(connectWireDetailMarshalJSON(e.Details[i]))]))>>
                ELSE <<>>),
            FALSE)

\* The elements of the "details" member.
jsonDetails(data) ==
    IF jsonField(data, "details").t = "array"
    THEN jsonField(data, "details").elems ELSE <<>>

\* connectWireError.UnmarshalJSON into a fresh connectWireError
connectWireErrorUnmarshalJSON(data) ==
    IF \/ data.t \notin {"object", "null"}
       \/ ~jsonFieldFits(data, "code", "string")
       \/ ~jsonFieldFits(data, "message", "string")
       \/ ~jsonFieldFits(data, "details", "array")
       \/ \E i \in 1..Len(jsonDetails(data)) :
            ~connectWireDetailUnmarshalJSON(jsonDetails(data)[i]).ok
    THEN [ok |-> FALSE, wire |-> WireError(0, "", <<>>)]
    ELSE LET text == CodeUnmarshalText(jsonStringField(data, "code", <<>>))
         IN  [ok |-> TRUE,
              wire |-> WireError(
                  IF text.ok THEN text.code ELSE 0,
                  jsonStringField(data, "message", ""),
                  [i \in 1..Len(jsonDetails(data)) |->
                      connectWireDetailUnmarshalJSON(jsonDetails(data)[i]).detail])]

(***************************************************************************)
(* The Connect protocol: the streaming marshaler (protocol_connect.go) on  *)
(* top of the envelope writer.                                             *)
(***************************************************************************)
flagEnvelopeCompressed == 1
connectFlagEnvelopeEndStream == 2

\* envelope.IsSet
IsSet(flags, flag) == (flags \div flag) % 2 = 1

Envelope(data, flags) == [Data |-> data, Flags |-> flags]

\* The length of a buffer: of JSON text, a stand-in that grows with the
\* members written; of any other payload, the length it carries.
bufferLen(data) ==
    IF data.t = "object" THEN 2 + Len(data.members) ELSE data.len

\* What the compression pool makes of a payload.
compress(pool, data) ==
    [t |-> "compressed", pool |-> pool, data |-> data, len |-> bufferLen(data) + 1]

SendLimit == "message size is larger than configured max"

\* envelopeWriter.Write: the envelope is written as it is when it is already
\* compressed, when there is no compression pool or when it is shorter than
\* compressMinBytes; otherwise its payload is compressed and the compressed
\* bit set. A payload longer than a positive sendMaxBytes is not written.
\* Yields the writer and the error returned.
envelopeWriterWrite(w, env) ==
    IF \/ IsSet(env.Flags, flagEnvelopeCompressed)
       \/ w.compressionPool = NilPool
       \/ bufferLen(env.Data) < w.compressMinBytes
    THEN IF w.sendMaxBytes > 0 /\ bufferLen(env.Data) > w.sendMaxBytes
         THEN [w |-> w,
               err |-> errorf(CodeResourceExhausted, SendLimit, <<w.sendMaxBytes>>)]
         ELSE [w |-> [w EXCEPT !.written = Append(@, env)], err |-> NilError]
    ELSE LET data == compress(w.compressionPool, env.Data)
         IN  IF w.sendMaxBytes > 0 /\ bufferLen(data) > w.sendMaxBytes
             THEN [w |-> w,
                   err |-> errorf(CodeResourceExhausted, SendLimit,
                                  <<w.sendMaxBytes>>)]
             ELSE [w |-> [w EXCEPT !.written =
                            Append(@, Envelope(data,
                                env.Flags + flagEnvelopeCompressed))],
                   err |-> NilError]

\* The headers the protocols keep to themselves.
protocolHeaders ==
    {headerContentType, "Content-Encoding", headerTrailer,
     connectHeaderProtocolVersion, grpcHeaderStatus, grpcHeaderMessage,
     grpcHeaderDetails}

\* mergeNonProtocolHeaders: the values under every key of from that is no
\* protocol header are appended to those of into.
mergeNonProtocolHeaders(into, from) ==
    mergeHeaders(into, [k \in DOMAIN from \ protocolHeaders |-> from[k]])

\* A connectEndStreamMessage.
EndStreamMessage(error, trailer) == [Error |-> error, Trailer |-> trailer]

\* json.Marshal of a connectEndStreamMessage: "error" unless the pointer is
\* nil, "metadata" unless the map is empty.
connectEndStreamMessageMarshalJSON(end) ==
    JObject((IF end.Error # NilWireError
             THEN <<JMember("error", connectWireErrorMarshalJSON(end.Error))>>
             ELSE <<>>)
            \o (IF DOMAIN end.Trailer # {}
                THEN <<JMember("metadata", [t |-> "headers", v |-> end.Trailer])>>
                ELSE <<>>),
            FALSE)

\* A connectStreamingMarshaler: the envelope writer's configuration, the
\* envelopes it has written to the sender, and the buffers given back to its
\* buffer pool.
NewMarshaler(compressionPool, compressMinBytes, sendMaxBytes) ==
    [compressionPool |-> compressionPool, compressMinBytes |-> compressMinBytes,
     sendMaxBytes |-> sendMaxBytes, written |-> <<>>, pooled |-> <<>>]

\* The end-of-stream envelope as MarshalEndStream builds it, with the
\* trailer map as it leaves it.
endStreamEnvelope(err, trailer, flags) ==
    LET error == IF err.kind # "nil" THEN newConnectWireError(err)
                 ELSE NilWireError
        merged == IF err.kind = "connect" /\ ~err.wireErr
                  THEN mergeNonProtocolHeaders(trailer, err.meta)
                  ELSE trailer
    IN  [trailer |-> merged,
         env |-> Envelope(connectEndStreamMessageMarshalJSON(
                              EndStreamMessage(error, merged)), flags)]

MarshalEndStreamAsData(m, err, trailer) ==
    LET end == endStreamEnvelope(err, trailer, 0)
        wrote == envelopeWriterWrite(m, end.env)
    IN  [m |-> [wrote.w EXCEPT !.pooled = Append(@, end.env.Data)],
         trailer |-> end.trailer, env |-> end.env, ret |-> wrote.err]

\* MarshalEndStream merging the metadata of every Connect error, read from
\* the wire or not.
MarshalEndStreamMergingWire(m, err, trailer) ==
    LET error == IF err.kind # "nil" THEN newConnectWireError(err)
                 ELSE NilWireError
        merged == IF err.kind = "connect"
                  THEN mergeNonProtocolHeaders(trailer, err.meta)
                  ELSE trailer
        data == connectEndStreamMessageMarshalJSON(EndStreamMessage(error, merged))
        env == Envelope(data, connectFlagEnvelopeEndStream)
        wrote == envelopeWriterWrite(m, env)
    IN  [m |-> [wrote.w EXCEPT !.pooled = Append(@, data)],
         trailer |-> merged, env |-> env, ret |-> wrote.err]

\* connectStreamingMarshaler.MarshalEndStream. Yields the marshaler, the
\* caller's trailer map, the envelope handed to Write and the error returned.
MarshalEndStream(m, err, trailer) ==
    LET error == IF err.kind # "nil" THEN newConnectWireError(err)
                 ELSE NilWireError
        merged == IF err.kind = "connect" /\ ~err.wireErr
                  THEN mergeNonProtocolHeaders(trailer, err.meta)
                  ELSE trailer
        data == connectEndStreamMessageMarshalJSON(EndStreamMessage(error, merged))
        env == Envelope(data, connectFlagEnvelopeEndStream)
        wrote == envelopeWriterWrite(m, env)
    IN  [m |-> [wrote.w EXCEPT !.pooled = Append(@, data)],
         trailer |-> merged, env |-> env, ret |-> wrote.err]

(***************************************************************************)
(* The Connect protocol: the streaming unmarshaler (protocol_connect.go)   *)
(* on top of the envelope reader.                                          *)
(***************************************************************************)
\* Text that is not JSON: cut short, or no JSON at all.
JInvalid == [t |-> "invalid"]

ToUpperChar(c) ==
    IF IsLower(c) THEN UpperLetters[CHOOSE i \in 1..26 : LowerLetters[i] = c]
    ELSE c

\* The characters a header field name is made of.
validHeaderFieldByte(c) ==
    \/ IsLower(c) \/ IsUpper(c)
    \/ \E i \in 1..Len(Digits) : Digits[i] = c
    \/ c \in {"-", "_", "."}

\* http.CanonicalHeaderKey: the first letter and every letter after a hyphen
\* in upper case, every other letter in lower case; a name with a space or
\* another character no field name has is returned as it is.
CanonicalHeaderKey(name) ==
    IF \E i \in 1..Len(name) : ~validHeaderFieldByte(name[i]) THEN name
    ELSE [i \in 1..Len(name) |->
            IF i = 1 \/ name[i - 1] = "-" THEN ToUpperChar(name[i])
            ELSE ToLowerChar(name[i])]

\* delHeaderCanonical: the entry under the key as it is spelled is deleted.
delHeaderCanonical(h, key) == [k \in DOMAIN h \ {key} |-> h[k]]

\* The loop of Unmarshal over end.Trailer, in the order the map range
\* yields its keys, with the values of a name that is not canonical
\* replacing those of the canonical name.
RECURSIVE canonicalizeTrailerReplacing(_, _)
canonicalizeTrailerReplacing(trailer, order) ==
    IF order = <<>> THEN trailer
    ELSE LET name == Head(order)
             value == trailer[name]
             canonical == CanonicalHeaderKey(name)
             deleted == delHeaderCanonical(trailer, name)
         IN  IF name # canonical
             THEN canonicalizeTrailerReplacing(
                    [k \in DOMAIN deleted \cup {canonical} |->
                        IF k = canonical THEN value ELSE deleted[k]],
                    Tail(order))
             ELSE canonicalizeTrailerReplacing(trailer, Tail(order))

\* The loop of Unmarshal over end.Trailer: the map range yields the keys the
\* map was decoded with, each once, in an order of its own (order); an entry
\* the loop adds is canonical, and yielding it changes nothing.
RECURSIVE canonicalizeTrailer(_, _)
canonicalizeTrailer(trailer, order) ==
    IF order = <<>> THEN trailer
    ELSE LET name == Head(order)
             value == trailer[name]
             canonical == CanonicalHeaderKey(name)
             deleted == delHeaderCanonical(trailer, name)
         IN  IF name # canonical
             THEN canonicalizeTrailer(
                    [k \in DOMAIN deleted \cup {canonical} |->
                        IF k = canonical
                        THEN (IF canonical \in DOMAIN deleted
                              THEN deleted[canonical] ELSE <<>>) \o value
                        ELSE deleted[k]],
                    Tail(order))
             ELSE canonicalizeTrailer(trailer, Tail(order))

\* json.Unmarshal into a fresh connectEndStreamMessage, each member written
\* at most once: "error" is a wire error or null, "metadata" a map of names
\* to lists of strings or null; null as the whole text leaves the message
\* empty; other members are passed over.
connectEndStreamMessageUnmarshalJSON(data) ==
    LET error == jsonField(data, "error")
        metadata == jsonField(data, "metadata")
    IN  IF \/ data.t \notin {"object", "null"}
           \/ ~jsonFieldFits(data, "error", "object")
           \/ ~jsonFieldFits(data, "metadata", "headers")
           \/ error.t = "object" /\ ~connectWireErrorUnmarshalJSON(error).ok
        THEN [ok |-> FALSE, end |-> EndStreamMessage(NilWireError, EmptyHeader)]
        ELSE [ok |-> TRUE,
              end |-> EndStreamMessage(
                  IF error.t = "object"
                  THEN connectWireErrorUnmarshalJSON(error).wire
                  ELSE NilWireError,
                  IF metadata.t = "headers" THEN metadata.v ELSE EmptyHeader)]

\* errSpecialEnvelope
errSpecialEnvelope ==
    errorf(CodeUnknown, "final message has protocol-specific flags", <<"EOF">>)

\* A buffer of the buffer pool, and no buffer.
Buffer(id, bytes) == [id |-> id, bytes |-> bytes]
NilBuffer == Buffer(0, NoJSON)

\* What arrives next on the stream: an envelope whole, with its flags, the
\* length its prefix gives and its payload; an envelope cut short; or the
\* end of the input.
Frame(flags, length, data) ==
    [kind |-> "envelope", Flags |-> flags, length |-> length, Data |-> data]
ShortFrame(flags, length) ==
    [kind |-> "short", Flags |-> flags, length |-> length, Data |-> NoJSON]
EndOfInput == [kind |-> "eof", Flags |-> 0, length |-> 0, Data |-> NoJSON]

\* A connectStreamingUnmarshaler: the envelope reader's configuration and
\* last special envelope, the buffers taken from its buffer pool (counted)
\* and given back to it (by number), and the end of the stream as stored.
NewUnmarshaler(compressionPool, readMaxBytes) ==
    [compressionPool |-> compressionPool, readMaxBytes |-> readMaxBytes,
     last |-> Envelope(NilBuffer, 0), got |-> 0, pooled |-> <<>>,
     endStreamErr |-> NilError, trailer |-> EmptyHeader]

ReadLimit == "message size is larger than configured max"
IncompleteEnvelope == "protocol error: incomplete envelope"

\* envelopeReader.Unmarshal: the flags and the length are read, a length
\* over a positive readMaxBytes is refused, a payload shorter than its
\* length is a framing error, a compressed payload is decompressed. An
\* envelope with a flag other than the compressed bit is no message: it is
\* kept in last, buffer included, and errSpecialEnvelope returned. On every
\* other path the buffer goes back to the pool. Yields the unmarshaler and
\* the error returned.
envelopeReaderUnmarshal(r, frame) ==
    LET id == r.got + 1
        taken == [r EXCEPT !.got = id]
        back == [taken EXCEPT !.pooled = Append(@, id)]
        data == IF IsSet(frame.Flags, flagEnvelopeCompressed) /\ frame.kind = "envelope"
                THEN frame.Data.data ELSE frame.Data
    IN  IF frame.kind = "eof" THEN [u |-> back, err |-> PlainError("EOF")]
        ELSE IF r.readMaxBytes > 0 /\ frame.length > r.readMaxBytes
        THEN [u |-> back,
              err |-> errorf(CodeResourceExhausted, ReadLimit, <<r.readMaxBytes>>)]
        ELSE IF frame.kind = "short"
        THEN [u |-> back, err |-> errorf(CodeInternal, IncompleteEnvelope, <<>>)]
        ELSE IF frame.Flags \in {0, flagEnvelopeCompressed}
        THEN [u |-> back, err |-> NilError]
        ELSE [u |-> [taken EXCEPT !.last = Envelope(Buffer(id, data), frame.Flags)],
              err |-> errSpecialEnvelope]

InvalidEnvelopeFlags == "protocol error: invalid envelope flags"
UnmarshalEndStream == "unmarshal end stream message"

\* Unmarshal without the check of the end-stream flag.
connectStreamingUnmarshalerUnmarshalAnyFlags(u, frame, order) ==
    LET read == envelopeReaderUnmarshal(u, frame)
        data == read.u.last.Data
        put == [read.u EXCEPT !.last.Data = NilBuffer, !.pooled = Append(@, data.id)]
        end == connectEndStreamMessageUnmarshalJSON(data.bytes)
    IN  IF read.err # errSpecialEnvelope THEN [u |-> read.u, ret |-> read.err]
        ELSE IF ~end.ok
        THEN [u |-> put, ret |-> errorf(CodeInternal, UnmarshalEndStream, <<>>)]
        ELSE [u |-> [put EXCEPT !.trailer = canonicalizeTrailer(end.end.Trailer, order),
                                !.endStreamErr = connectWireErrorAsError(end.end.Error)],
              ret |-> errSpecialEnvelope]

\* Unmarshal giving the buffer back only when the stream has ended well,
\* and keeping its reference.
connectStreamingUnmarshalerUnmarshalKeeping(u, frame, order) ==
    LET read == envelopeReaderUnmarshal(u, frame)
        env == read.u.last
        data == env.Data
        put == [read.u EXCEPT !.pooled = Append(@, data.id)]
        end == connectEndStreamMessageUnmarshalJSON(data.bytes)
    IN  IF read.err # errSpecialEnvelope THEN [u |-> read.u, ret |-> read.err]
        ELSE IF ~IsSet(env.Flags, connectFlagEnvelopeEndStream)
        THEN [u |-> read.u,
              ret |-> errorf(CodeInternal, InvalidEnvelopeFlags, <<env.Flags>>)]
        ELSE IF ~end.ok
        THEN [u |-> read.u, ret |-> errorf(CodeInternal, UnmarshalEndStream, <<>>)]
        ELSE [u |-> [put EXCEPT !.trailer = canonicalizeTrailer(end.end.Trailer, order),
                                !.endStreamErr = connectWireErrorAsError(end.end.Error)],
              ret |-> errSpecialEnvelope]

\* Unmarshal storing the end of the stream before it looks at the flags.
connectStreamingUnmarshalerUnmarshalEager(u, frame, order) ==
    LET read == envelopeReaderUnmarshal(u, frame)
        env == read.u.last
        data == env.Data
        put == [read.u EXCEPT !.last.Data = NilBuffer, !.pooled = Append(@, data.id)]
        end == connectEndStreamMessageUnmarshalJSON(data.bytes)
        stored == [put EXCEPT !.trailer = canonicalizeTrailer(end.end.Trailer, order),
                              !.endStreamErr = connectWireErrorAsError(end.end.Error)]
    IN  IF read.err # errSpecialEnvelope THEN [u |-> read.u, ret |-> read.err]
        ELSE IF ~end.ok
        THEN [u |-> put, ret |-> errorf(CodeInternal, UnmarshalEndStream, <<>>)]
        ELSE IF ~IsSet(env.Flags, connectFlagEnvelopeEndStream)
        THEN [u |-> stored,
              ret |-> errorf(CodeInternal, InvalidEnvelopeFlags, <<env.Flags>>)]
        ELSE [u |-> stored, ret |-> errSpecialEnvelope]

\* connectStreamingUnmarshaler.Unmarshal of what arrives next; order is the
\* order in which the range over the trailer map yields its keys. The
\* deferred bufferPool.Put runs on each of the three ways out that follow
\* a special envelope. Yields the unmarshaler and the error returned.
connectStreamingUnmarshalerUnmarshal(u, frame, order) ==
    LET read == envelopeReaderUnmarshal(u, frame)
        env == read.u.last
        data == env.Data
        put == [read.u EXCEPT !.last.Data = NilBuffer, !.pooled = Append(@, data.id)]
        end == connectEndStreamMessageUnmarshalJSON(data.bytes)
    IN  IF read.err = NilError THEN [u |-> read.u, ret |-> NilError]
        ELSE IF read.err # errSpecialEnvelope THEN [u |-> read.u, ret |-> read.err]
        ELSE IF ~IsSet(env.Flags, connectFlagEnvelopeEndStream)
        THEN [u |-> put,
              ret |-> errorf(CodeInternal, InvalidEnvelopeFlags, <<env.Flags>>)]
        ELSE IF ~end.ok
        THEN [u |-> put, ret |-> errorf(CodeInternal, UnmarshalEndStream, <<>>)]
        ELSE [u |-> [put EXCEPT !.trailer = canonicalizeTrailer(end.end.Trailer, order),
                                !.endStreamErr = connectWireErrorAsError(end.end.Error)],
              ret |-> errSpecialEnvelope]

\* connectStreamingUnmarshaler.Trailer
Trailer(u) == u.trailer

\* connectStreamingUnmarshaler.EndStreamError
EndStreamError(u) == u.endStreamErr

(***************************************************************************)
(* The Connect protocol functions, each applied to arguments drawn from    *)
(* the sets below.                                                         *)
(***************************************************************************)
CT_connectJSONCharset == connectUnaryContentTypePrefix \o codecNameJSONCharsetUTF8
CT_connectProto == connectUnaryContentTypePrefix \o codecNameProto
CT_streamJSON == connectStreamingContentTypePrefix \o codecNameJSON
CT_streamJSONCharset == connectStreamingContentTypePrefix \o codecNameJSONCharsetUTF8
CT_streamProto == connectStreamingContentTypePrefix \o codecNameProto

RequestCodecs == {codecNameJSON, codecNameJSONCharsetUTF8, codecNameProto}
ResponseContentTypes ==
    {CT_none, CT_json, CT_connectJSONCharset, CT_connectProto, CT_streamJSON,
     CT_streamJSONCharset, CT_streamProto, S_json, CT_text}
ResponseMethods == {"GET", "POST"}
StatusCodes == {200, 304, 404, 503}
StatusMsgs == {"", "Not Found"}
\* The stream types of the calls that validate a streaming response.
StreamTypes == {StreamTypeClient, StreamTypeServer, StreamTypeBidi}

\* Every Code value, the zero value and two values past the last.
ProbeCodes == 0..(maxCode + 2)

\* What a request may carry under one key: nothing, an empty value, the two
\* version spellings and a version of the future.
VersionValues == {<<>>, <<"1">>, <<"v", "1">>, <<"2">>}
VersionMaps(key) ==
    {EmptyHeader} \cup {setHeaderCanonical(EmptyHeader, key, v) : v \in VersionValues}
VersionRequests ==
    {VersionRequest(m, q, h) :
        m \in Methods,
        q \in VersionMaps(connectUnaryConnectQueryParameter),
        h \in VersionMaps(connectHeaderProtocolVersion)}

S_xy == <<"x", "/", "y">>
S_Zm9v == <<"Z", "m", "9", "v">>

\* Detail texts as they arrive: a type with and without '/', a type that is
\* no string, payloads padded, unpadded, empty and undecodable, with and
\* without a "debug" member or a second "type" member, in either member
\* order, with and without insignificant whitespace; and texts that are no
\* object.
DetailTypes == {JString(S_xy), JString(S_rpcRetry), JNumber(5)}
DetailValues ==
    {JString(S_Zm9v), JString(<<"Z", "m", "8">>), JString(<<"Z", "m", "8", "=">>),
     JString(<<"Z">>), JString(<<>>)}
DetailExtras ==
    {<<>>, <<JMember("debug", JObject(<<JMember("retry", JNumber(5))>>, TRUE))>>,
     <<JMember("type", JNull)>>}
DetailTexts ==
    {JObject(<<JMember("type", type), JMember("value", value)>> \o extra, spaced) :
        type \in DetailTypes, value \in DetailValues, extra \in DetailExtras,
        spaced \in BOOLEAN}
    \cup {JObject(<<JMember("value", JString(S_Zm9v)), JMember("type", JString(S_xy))>>,
                  FALSE),
          JObject(<<JMember("type", JString(S_rpcRetry)),
                    JMember("value", JString(S_Zm9v)),
                    JMember("type", JString(S_xy))>>, FALSE),
          JNull, JString(S_xy), JArray(<<>>)}

WireDetailText == JObject(<<JMember("type", JString(S_xy)),
                            JMember("value", JString(S_Zm9v))>>, FALSE)

\* The details an Error may carry: built from a message, built from an Any
\* with a type URL of its own, and read from the wire.
RoundTripDetails ==
    {RetryDetail,
     NewErrorDetail(<<"p", "k", "g", ".", "T">>, <<255>>),
     NewErrorDetailFromAny(<<"e", "x", ".", "c", "o", "m", "/", "p", "k", "g", ".", "T">>,
                           <<102, 111>>),
     connectWireDetailUnmarshalJSON(WireDetailText).detail}
RoundTripErrors ==
    {ConnectError(code, message, details, EmptyHeader, FALSE) :
        code \in minCode..maxCode, message \in {"", "boom"},
        details \in SeqsUpTo(RoundTripDetails, 2)}

\* Wire error texts: the "code" member absent, null, a name, a number in
\* and out of range spelled "code_N", texts that are neither, and a JSON
\* number; with and without message and details.
CodeMembers ==
    {<<>>, <<JMember("code", JNull)>>}
    \cup {<<JMember("code", JString(text))>> :
            text \in {<<"not_found">>, <<"code_", "5">>, <<"code_", "17">>,
                      <<"code_", "0">>, <<"code_">>, <<"NOT_FOUND">>, <<>>,
                      <<"code_", "4294967296">>, <<"teapot">>}}
    \cup {<<JMember("code", JNumber(5))>>}
WireErrorTexts ==
    {JObject(code \o message \o details, FALSE) :
        code \in CodeMembers,
        message \in {<<>>, <<JMember("message", JString("boom"))>>},
        details \in {<<>>, <<JMember("details", JArray(<<WireDetailText>>))>>}}

InitConnect ==
    /\ phase = "connect"
    /\ config = [kind |-> "handler", Interceptor |-> NilInterceptor]
    /\ applied = <<>>
    /\ supplied = <<>>
    /\ hooks = NoHooks
    /\ writer = NoWriter
    /\ pools = NoPools
    /\ names = <<>>
    /\ calls = NoCalls
    /\ probe = NoProbe
    /\ stream = NoStream
    /\ receive = NoReceive

ProbeVars == <<phase, chainVars, sharedVars, calls, stream, receive>>

CallValidateUnary(requestCodecName, httpMethod, statusCode, statusMsg, responseContentType) ==
    /\ probe.op = "none"
    /\ probe' = [op |-> "connectValidateUnaryResponseContentType",
                 in |-> [requestCodecName |-> requestCodecName,
                         httpMethod |-> httpMethod,
                         statusCode |-> statusCode,
                         statusMsg |-> statusMsg,
                         responseContentType |-> responseContentType],
                 out |-> connectValidateUnaryResponseContentType(
                             requestCodecName, httpMethod, statusCode,
                             statusMsg, responseContentType)]
    /\ UNCHANGED ProbeVars

CallValidateStream(requestCodecName, streamType, responseContentType) ==
    /\ probe.op = "none"
    /\ probe' = [op |-> "connectValidateStreamResponseContentType",
                 in |-> [requestCodecName |-> requestCodecName,
                         streamType |-> streamType,
                         responseContentType |-> responseContentType],
                 out |-> connectValidateStreamResponseContentType(
                             requestCodecName, streamType, responseContentType)]
    /\ UNCHANGED ProbeVars

CallCodeToHTTP(code) ==
    /\ probe.op = "none"
    /\ probe' = [op |-> "connectCodeToHTTP", in |-> [code |-> code],
                 out |-> connectCodeToHTTP(code)]
    /\ UNCHANGED ProbeVars

CallCheckProtocolVersion(request, required) ==
    /\ probe.op = "none"
    /\ probe' = [op |-> "connectCheckProtocolVersion",
                 in |-> [request |-> request, required |-> required],
                 out |-> connectCheckProtocolVersion(request, required)]
    /\ UNCHANGED ProbeVars

\* An Error goes out as JSON and comes back: newConnectWireError,
\* json.Marshal, connectWireError.UnmarshalJSON, asError.
CallWireRoundTrip(err) ==
    /\ probe.op = "none"
    /\ LET wire == newConnectWireError(err)
           data == connectWireErrorMarshalJSON(wire)
           read == connectWireErrorUnmarshalJSON(data)
       IN  probe' = [op |-> "wireRoundTrip", in |-> [err |-> err],
                     out |-> [wire |-> wire, data |-> data, ok |-> read.ok,
                              err |-> IF read.ok
                                      THEN connectWireErrorAsError(read.wire)
                                      ELSE NilError]]
    /\ UNCHANGED ProbeVars

\* A detail is read from JSON and, when accepted, written again.
CallDetailRoundTrip(data) ==
    /\ probe.op = "none"
    /\ LET read == connectWireDetailUnmarshalJSON(data)
       IN  probe' = [op |-> "detailRoundTrip", in |-> [data |-> data],
                     out |-> [ok |-> read.ok, detail |-> read.detail,
                              data |-> IF read.ok
                                       THEN connectWireDetailMarshalJSON(read.detail)
                                       ELSE NoJSON]]
    /\ UNCHANGED ProbeVars

\* A wire error is read from JSON and, when accepted, turned into an Error.
CallUnmarshalWireError(data) ==
    /\ probe.op = "none"
    /\ LET read == connectWireErrorUnmarshalJSON(data)
       IN  probe' = [op |-> "connectWireError.UnmarshalJSON",
                     in |-> [data |-> data],
                     out |-> [ok |-> read.ok, wire |-> read.wire,
                              err |-> IF read.ok
                                      THEN connectWireErrorAsError(read.wire)
                                      ELSE NilError]]
    /\ UNCHANGED ProbeVars

\* The caller has looked at the result.
ProbeReturn ==
    /\ probe.op # "none"
    /\ probe' = NoProbe
    /\ UNCHANGED ProbeVars

NextConnect ==
    \/ \E codec \in RequestCodecs, m \in ResponseMethods, status \in StatusCodes,
          msg \in StatusMsgs, ct \in ResponseContentTypes :
            CallValidateUnary(codec, m, status, msg, ct)
    \/ \E codec \in RequestCodecs, st \in StreamTypes, ct \in ResponseContentTypes :
            CallValidateStream(codec, st, ct)
    \/ \E code \in ProbeCodes : CallCodeToHTTP(code)
    \/ \E request \in VersionRequests, required \in BOOLEAN :
            CallCheckProtocolVersion(request, required)
    \/ \E err \in RoundTripErrors : CallWireRoundTrip(err)
    \/ \E data \in DetailTexts : CallDetailRoundTrip(data)
    \/ \E data \in WireErrorTexts : CallUnmarshalWireError(data)
    \/ ProbeReturn

SpecConnect == InitConnect /\ [][NextConnect]_vars

(***************************************************************************)
(* Properties of the response content-type validation.                     *)
(***************************************************************************)
Probed(op) == probe.op = op

\* The two codec names are the same, or the two spellings of JSON.
SameCodec(a, b) ==
    \/ a = b
    \/ {a, b} = {codecNameJSON, codecNameJSONCharsetUTF8}

\* C11: a 200 unary response whose content type is "application/" followed
\* by the request codec, or by the other spelling of JSON when the request
\* codec is one of "json" and "json; charset=utf-8", is accepted.
C11_SameCodecAccepted ==
    (/\ Probed("connectValidateUnaryResponseContentType")
     /\ probe.in.statusCode = 200
     /\ \E codec \in RequestCodecs :
            /\ SameCodec(codec, probe.in.requestCodecName)
            /\ probe.in.responseContentType = S_application \o codec)
        => probe.out.kind = "nil"

\* C11 witness: ("json", POST, 200, "", "application/json; charset=utf-8")
\* has been validated and accepted.
C11_Witness ==
    /\ Probed("connectValidateUnaryResponseContentType")
    /\ probe.in = [requestCodecName |-> codecNameJSON, httpMethod |-> "POST",
                   statusCode |-> 200, statusMsg |-> "",
                   responseContentType |-> CT_connectJSONCharset]
    /\ probe.out.kind = "nil"

\* What any status other than 200 yields when it is not the "not modified"
\* case: nothing for a JSON content type, otherwise an error with the code
\* inferred from the status and the status message.
ErrorResponseResult(statusCode, statusMsg, responseContentType) ==
    IF responseContentType \in {CT_json, CT_connectJSONCharset}
    THEN NilError
    ELSE [kind |-> "connect", code |-> httpToCode(statusCode),
          message |-> statusMsg, details |-> <<>>, meta |-> EmptyHeader,
          wireErr |-> FALSE]

\* C12: 304 on a GET yields the "not modified" wire error with code Unknown
\* whatever the request codec and response content type; 304 on any other
\* method is treated as any other status that is not 200.
C12_NotModifiedOnGet ==
    (/\ Probed("connectValidateUnaryResponseContentType")
     /\ probe.in.statusCode = 304)
        => IF probe.in.httpMethod = "GET"
           THEN /\ probe.out.kind = "connect"
                /\ probe.out.code = CodeUnknown
                /\ probe.out.message = "not modified"
                /\ probe.out.wireErr
           ELSE probe.out = ErrorResponseResult(304, probe.in.statusMsg,
                                                probe.in.responseContentType)

\* C12 witness: a 304 answer to a GET with a JSON content type has been
\* validated, and the sentinel came back all the same.
C12_Witness ==
    /\ Probed("connectValidateUnaryResponseContentType")
    /\ probe.in.statusCode = 304
    /\ probe.in.httpMethod = "GET"
    /\ probe.in.responseContentType = CT_json
    /\ probe.out.wireErr

\* C13: for a status other than 200 that is not 304 on a GET, the result is
\* nil exactly when the response content type is "application/json" or
\* "application/json; charset=utf-8", whatever the request codec; otherwise
\* it is an error with the code inferred from the status and the status
\* message as its message.
C13_ErrorResponsesMustBeJSON ==
    (/\ Probed("connectValidateUnaryResponseContentType")
     /\ probe.in.statusCode # 200
     /\ ~(probe.in.statusCode = 304 /\ probe.in.httpMethod = "GET"))
        => /\ probe.out.kind = "nil"
                <=> probe.in.responseContentType
                        \in {CT_json, CT_connectJSONCharset}
           /\ probe.out.kind # "nil"
                => /\ probe.out.kind = "connect"
                   /\ probe.out.code = httpToCode(probe.in.statusCode)
                   /\ probe.out.message = probe.in.statusMsg

\* C13 witness: a 404 answer with "application/json; charset=utf-8" to a
\* request sent with the proto codec has been validated and accepted.
C13_Witness ==
    /\ Probed("connectValidateUnaryResponseContentType")
    /\ probe.in.statusCode = 404
    /\ probe.in.requestCodecName = codecNameProto
    /\ probe.in.responseContentType = CT_connectJSONCharset
    /\ probe.out.kind = "nil"

\* The outcome of a validation: accepted, or rejected with a code.
Outcome(err) ==
    IF err.kind = "nil" THEN "nil"
    ELSE IF err.code = CodeUnknown THEN "unknown"
    ELSE IF err.code = CodeInternal THEN "internal"
    ELSE "other"

\* C14: a 200 unary response and a streaming response are rejected with
\* Unknown when the content type lacks the protocol's prefix, rejected with
\* Internal when the prefix is there and the codec after it is not the
\* request codec, and accepted only when the codecs are the same (or, for a
\* unary response, the two spellings of JSON).
C14_MismatchNeverAccepted ==
    /\ (Probed("connectValidateUnaryResponseContentType")
            /\ probe.in.statusCode = 200)
        => Outcome(probe.out) =
            IF ~HasPrefix(probe.in.responseContentType, S_application)
            THEN "unknown"
            ELSE IF SameCodec(TrimPrefix(probe.in.responseContentType,
                                         S_application),
                              probe.in.requestCodecName)
            THEN "nil"
            ELSE "internal"
    /\ Probed("connectValidateStreamResponseContentType")
        => Outcome(probe.out) =
            IF ~HasPrefix(probe.in.responseContentType,
                          connectStreamingContentTypePrefix)
            THEN "unknown"
            ELSE IF probe.in.responseContentType =
                        connectStreamingContentTypePrefix
                            \o probe.in.requestCodecName
            THEN "nil"
            ELSE "internal"

\* C14 witness: a streaming response in the other spelling of JSON has been
\* rejected with Internal.
C14_Witness ==
    /\ Probed("connectValidateStreamResponseContentType")
    /\ probe.in.requestCodecName = codecNameJSON
    /\ probe.in.responseContentType = CT_streamJSONCharset
    /\ probe.out.kind = "connect"
    /\ probe.out.code = CodeInternal

(***************************************************************************)
(* Properties of the status mapping and the protocol version check.        *)
(***************************************************************************)
\* The HTTP status the Connect protocol assigns to each code.
StatusTable ==
    {<<CodeCanceled, 499>>, <<CodeUnknown, 500>>, <<CodeInvalidArgument, 400>>,
     <<CodeDeadlineExceeded, 504>>, <<CodeNotFound, 404>>,
     <<CodeAlreadyExists, 409>>, <<CodePermissionDenied, 403>>,
     <<CodeResourceExhausted, 429>>, <<CodeFailedPrecondition, 400>>,
     <<CodeAborted, 409>>, <<CodeOutOfRange, 400>>, <<CodeUnimplemented, 501>>,
     <<CodeInternal, 500>>, <<CodeUnavailable, 503>>, <<CodeDataLoss, 500>>,
     <<CodeUnauthenticated, 401>>}

\* C15: connectCodeToHTTP yields the status the table gives for each of the
\* sixteen codes, and 500 for every other value.
C15_CodeToHTTPTable ==
    Probed("connectCodeToHTTP")
        => /\ \A row \in StatusTable :
                probe.in.code = row[1] => probe.out = row[2]
           /\ (\A row \in StatusTable : probe.in.code # row[1])
                => probe.out = 500

\* C15 witness: FailedPrecondition has been mapped, to 400.
C15_Witness ==
    /\ Probed("connectCodeToHTTP")
    /\ probe.in.code = CodeFailedPrecondition
    /\ probe.out = 400

\* The version a request carries where its method is looked at.
VersionSent(request) ==
    IF request.Method = "GET"
    THEN IF "connect" \in DOMAIN request.Query
         THEN request.Query["connect"][1] ELSE <<>>
    ELSE IF "Connect-Protocol-Version" \in DOMAIN request.Header
         THEN request.Header["Connect-Protocol-Version"][1] ELSE <<>>

VersionExpected(request) ==
    IF request.Method = "GET" THEN <<"v", "1">> ELSE <<"1">>

InvalidArgument(err) == err.kind = "connect" /\ err.code = CodeInvalidArgument

\* C16: a GET is judged by its "connect" query parameter, which must be
\* "v1", and a POST by its Connect-Protocol-Version header, which must be
\* "1". A missing version is InvalidArgument when required and accepted when
\* not; a present version with another value is InvalidArgument either way;
\* any other method is InvalidArgument.
C16_CheckProtocolVersion ==
    Probed("connectCheckProtocolVersion")
        => LET request == probe.in.request
               version == VersionSent(request)
           IN  IF request.Method \in {"GET", "POST"}
               THEN IF version = <<>>
                    THEN IF probe.in.required
                         THEN InvalidArgument(probe.out)
                         ELSE probe.out.kind = "nil"
                    ELSE IF version = VersionExpected(request)
                         THEN probe.out.kind = "nil"
                         ELSE InvalidArgument(probe.out)
               ELSE InvalidArgument(probe.out)

\* C16 witness: a GET whose query says "v2" has been rejected although the
\* version was not required and its header carries "1".
C16_Witness ==
    /\ Probed("connectCheckProtocolVersion")
    /\ probe.in.request.Method = "GET"
    /\ ~probe.in.required
    /\ VersionSent(probe.in.request) = <<"2">>
    /\ getHeaderCanonical(probe.in.request.Header, "Connect-Protocol-Version")
            = <<"1">>
    /\ InvalidArgument(probe.out)

(***************************************************************************)
(* Properties of errors on the wire.                                       *)
(***************************************************************************)
\* The round trip gave back the code, the message and as many details.
SameCodeAndMessage ==
    /\ probe.out.ok
    /\ probe.out.err.kind = "connect"
    /\ probe.out.err.code = probe.in.err.code
    /\ probe.out.err.message = probe.in.err.message
    /\ Len(probe.out.err.details) = Len(probe.in.err.details)

HasDefaultPrefix(url) == url = defaultAnyResolverPrefix \o typeNameForURL(url)

CodeNotRecognized(data) ==
    \/ \A i \in 1..Len(data.members) : data.members[i].key # "code"
    \/ \E i \in 1..Len(data.members) :
        /\ data.members[i].key = "code"
        /\ data.members[i].value \in
                {JNull, JString(<<"code_">>), JString(<<"NOT_FOUND">>),
                 JString(<<>>), JString(<<"code_", "4294967296">>),
                 JString(<<"teapot">>)}

\* The "code" member of a wire error text is a string, or null or absent.
CodeIsString(data) ==
    \A i \in 1..Len(data.members) :
        data.members[i].key = "code"
            => data.members[i].value.t \in {"string", "null"}

\* C19: whatever the code string of a wire error, the text is accepted; a
\* code string that is unrecognized, malformed or missing leaves the code
\* unset with the message and the details read all the same; and the Error
\* made of the wire error has one of the sixteen codes, Unknown when the
\* wire error's code is unset or otherwise out of range.
C19_LenientCode ==
    (Probed("connectWireError.UnmarshalJSON") /\ CodeIsString(probe.in.data))
        => /\ probe.out.ok
           /\ CodeNotRecognized(probe.in.data)
                => /\ probe.out.wire.Code = 0
                   /\ probe.out.wire.Message =
                        jsonStringField(probe.in.data, "message", "")
                   /\ Len(probe.out.wire.Details) = Len(jsonDetails(probe.in.data))
           /\ probe.out.err.code \in minCode..maxCode
           /\ probe.out.wire.Code \notin minCode..maxCode
                => probe.out.err.code = CodeUnknown

\* C19 witness: a wire error whose code is "teapot", with a message and a
\* detail, has been read: the code is unset, message and detail are there,
\* and the Error is Unknown.
C19_Witness ==
    /\ Probed("connectWireError.UnmarshalJSON")
    /\ jsonField(probe.in.data, "code") = JString(<<"teapot">>)
    /\ probe.out.ok
    /\ probe.out.wire.Code = 0
    /\ probe.out.wire.Message = "boom"
    /\ Len(probe.out.wire.Details) = 1
    /\ probe.out.err.code = CodeUnknown
    /\ probe.out.err.details[1].pbAny.Value = <<102, 111, 111>>

(***************************************************************************)
(* A Connect stream: messages are sent, then the stream is ended.          *)
(***************************************************************************)
MaxMessages == 2

\* The configurations of the envelope writer: with and without a
\* compression pool, compressing everything or nothing that short, with no
\* send limit, one nothing fits in and one everything fits in.
Marshalers ==
    {NewMarshaler(pool, compressMinBytes, sendMaxBytes) :
        pool \in {NilPool, PoolFor("gzip")}, compressMinBytes \in {0, 1024},
        sendMaxBytes \in {0, 1, 1024}}

ErrMetaProtocol == setHeaderCanonical(ErrMeta, "Content-Encoding", "gzip")

\* The errors a stream ends with: none, one that is no *Error, and Connect
\* errors built locally and read from the wire, with metadata and details.
EndStreamErrors ==
    {NilError, PlainError("EOF"),
     ConnectError(CodeNotFound, "gone", <<>>, ErrMeta, FALSE),
     ConnectError(CodeNotFound, "gone", <<>>, ErrMeta, TRUE),
     ConnectError(CodeInternal, "", <<RetryDetail>>, ErrMetaProtocol, FALSE)}

EndStreamTrailers ==
    {EmptyHeader, setHeaderCanonical(EmptyHeader, "X-Trailer", "t"),
     setHeaderCanonical(EmptyHeader, "X-Err", "t")}

InitStream ==
    /\ phase = "stream"
    /\ config = [kind |-> "handler", Interceptor |-> NilInterceptor]
    /\ applied = <<>>
    /\ supplied = <<>>
    /\ hooks = NoHooks
    /\ writer = NoWriter
    /\ pools = NoPools
    /\ names = <<>>
    /\ calls = NoCalls
    /\ probe = NoProbe
    /\ receive = NoReceive
    /\ \E m \in Marshalers :
            stream = [open |-> TRUE, marshaler |-> m, ended |-> FALSE,
                      end |-> [err |-> NilError, trailer |-> EmptyHeader,
                               before |-> <<>>, env |-> Envelope(NoJSON, 0),
                               trailerAfter |-> EmptyHeader, ret |-> NilError]]

StreamVars == <<phase, chainVars, sharedVars, calls, probe, receive>>

\* envelopeWriter.Marshal of a message: its bytes go out in one envelope.
SendMessage(len) ==
    /\ ~stream.ended
    /\ Len(stream.marshaler.written) < MaxMessages
    /\ stream' = [stream EXCEPT !.marshaler =
            envelopeWriterWrite(@, Envelope([t |-> "bytes", len |-> len], 0)).w]
    /\ UNCHANGED StreamVars

\* MarshalEndStream(err, trailer)
CallMarshalEndStream(err, trailer) ==
    /\ ~stream.ended
    /\ LET call == MarshalEndStream(stream.marshaler, err, trailer)
       IN  stream' = [stream EXCEPT
                !.marshaler = call.m,
                !.ended = TRUE,
                !.end = [err |-> err, trailer |-> trailer,
                         before |-> stream.marshaler.written, env |-> call.env,
                         trailerAfter |-> call.trailer, ret |-> call.ret]]
    /\ UNCHANGED StreamVars

NextStream ==
    \/ \E len \in {1, 2048} : SendMessage(len)
    \/ \E err \in EndStreamErrors, trailer \in EndStreamTrailers :
            CallMarshalEndStream(err, trailer)

SpecStream == InitStream /\ [][NextStream]_vars

(***************************************************************************)
(* Properties of the end of a stream.                                      *)
(***************************************************************************)
Ended == phase = "stream" /\ stream.ended

\* The payload is the JSON object {error?, metadata?} for the error and the
\* trailers MarshalEndStream was given: "error" is there exactly when the
\* error is not nil, a plain error goes as Unknown with its text as message,
\* and "metadata" holds, under each key of the trailers, their values first.
EndStreamPayload(data) ==
    /\ data.t = "object"
    /\ \A i \in 1..Len(data.members) : data.members[i].key \in {"error", "metadata"}
    /\ (\E i \in 1..Len(data.members) : data.members[i].key = "error")
            <=> stream.end.err.kind # "nil"
    /\ stream.end.err.kind = "plain"
            => /\ jsonField(jsonField(data, "error"), "code") = JString(<<"unknown">>)
               /\ jsonField(jsonField(data, "error"), "message")
                    = JString(stream.end.err.message)
    /\ \A k \in DOMAIN stream.end.trailer :
            /\ jsonField(data, "metadata").t = "headers"
            /\ k \in DOMAIN jsonField(data, "metadata").v
            /\ HasPrefix(jsonField(data, "metadata").v[k], stream.end.trailer[k])

\* The envelopes written by the call that ended the stream.
WrittenAtEnd ==
    SubSeq(stream.marshaler.written, Len(stream.end.before) + 1,
           Len(stream.marshaler.written))

\* C20 as stated: MarshalEndStream writes exactly one envelope, with flags 2
\* and the JSON object {error?, metadata?} as its payload.
C20_MarshalEndStream_AsStated ==
    Ended
        => /\ Len(WrittenAtEnd) = 1
           /\ WrittenAtEnd[1].Flags = 2
           /\ EndStreamPayload(WrittenAtEnd[1].Data)

\* C20: MarshalEndStream hands exactly one envelope to the envelope writer,
\* with flags 2 and the JSON object {error?, metadata?} as its payload; when
\* it returns nil the writer has written exactly one envelope, which is that
\* envelope or, when the writer compresses, its compressed payload with the
\* compressed bit set as well; when it returns an error nothing has been
\* written.
C20_MarshalEndStream ==
    Ended
        => /\ stream.end.env.Flags = 2
           /\ EndStreamPayload(stream.end.env.Data)
           /\ stream.marshaler.written
                = stream.end.before \o WrittenAtEnd
           /\ IF stream.end.ret.kind = "nil"
              THEN /\ Len(WrittenAtEnd) = 1
                   /\ IsSet(WrittenAtEnd[1].Flags, 2)
                   /\ \/ WrittenAtEnd[1] = stream.end.env
                      \/ /\ stream.marshaler.compressionPool # NilPool
                         /\ WrittenAtEnd[1].Flags = 3
                         /\ WrittenAtEnd[1].Data.t = "compressed"
                         /\ WrittenAtEnd[1].Data.data = stream.end.env.Data
              ELSE WrittenAtEnd = <<>>

\* C20 witness: after a message, a stream without compression has been ended
\* with a plain error and trailers, and the envelope is on the wire.
C20_Witness ==
    /\ Ended
    /\ stream.end.err = PlainError("EOF")
    /\ DOMAIN stream.end.trailer = {"X-Trailer"}
    /\ Len(stream.end.before) = 1
    /\ stream.end.ret.kind = "nil"
    /\ WrittenAtEnd = <<stream.end.env>>
    /\ Len(stream.end.env.Data.members) = 2

\* The metadata in the end-stream message handed to the writer.
TransmittedMetadata ==
    IF jsonField(stream.end.env.Data, "metadata").t = "headers"
    THEN jsonField(stream.end.env.Data, "metadata").v ELSE EmptyHeader

\* The supplied trailers with the values of the error's headers that are no
\* protocol headers after them.
TrailersPlusErrorMetadata ==
    LET trailer == stream.end.trailer
        meta == stream.end.err.meta
        own == {k \in DOMAIN meta : k \notin protocolHeaders}
    IN  [k \in DOMAIN trailer \cup own |->
            (IF k \in DOMAIN trailer THEN trailer[k] ELSE <<>>)
                \o (IF k \in own THEN meta[k] ELSE <<>>)]

\* C25: the metadata MarshalEndStream transmits is exactly the supplied
\* trailers for a nil error, for an error that is no Connect error and for
\* a Connect error read from the wire (wire flag set); for a Connect error
\* built locally it is the supplied trailers plus the error's non-protocol
\* headers.
C25_MetadataMergedOnlyForLocalErrors ==
    Ended
        => TransmittedMetadata
            = IF stream.end.err.kind = "connect" /\ ~stream.end.err.wireErr
              THEN TrailersPlusErrorMetadata
              ELSE stream.end.trailer

\* C25 witness: a stream has been ended with a Connect error read from the
\* wire that has metadata of its own, and with trailers; only the trailers
\* were transmitted.
C25_Witness ==
    /\ Ended
    /\ stream.end.err.kind = "connect"
    /\ stream.end.err.wireErr
    /\ DOMAIN stream.end.err.meta # {}
    /\ DOMAIN stream.end.trailer = {"X-Trailer"}
    /\ TransmittedMetadata = stream.end.trailer

(***************************************************************************)
(* The receiving end of a Connect stream: Unmarshal is called on what      *)
(* arrives, envelope after envelope.                                       *)
(***************************************************************************)
MaxReads == 2

\* Header names as they are spelled on the wire.
K_xa == <<"x", "-", "a">>
K_XA == <<"X", "-", "A">>
K_xA == <<"x", "-", "A">>
K_B == <<"B">>
K_space == <<"x", " ", "a">>

\* The "metadata" of end-stream messages: one spelling that is not
\* canonical, the canonical spelling with one and with two others, the
\* same value under two spellings, and a name no header has.
TwoSpellings == (K_XA :> <<"0">>) @@ (K_xa :> <<"1">>)
WireMetadata ==
    {K_xa :> <<"1">>, TwoSpellings,
     (K_XA :> <<"0">>) @@ (K_xa :> <<"1">>) @@ (K_xA :> <<"2", "3">>),
     (K_xa :> <<"1">>) @@ (K_xA :> <<"1">>),
     (K_B :> <<"b">>) @@ (K_space :> <<"s">>)}

\* The "error" member: absent, null, a wire error with a name for its code,
\* with no member at all, with a code no name is known for, with a number
\* for its code, and a number where the object should be.
EndStreamErrorMembers ==
    {<<>>, <<JMember("error", JNull)>>,
     <<JMember("error", JObject(<<JMember("code", JString(<<"not_found">>)),
                                  JMember("message", JString("gone"))>>, FALSE))>>,
     <<JMember("error", JObject(<<>>, FALSE))>>,
     <<JMember("error", JObject(<<JMember("code", JString(<<"teapot">>))>>, FALSE))>>,
     <<JMember("error", JObject(<<JMember("code", JNumber(5))>>, FALSE))>>,
     <<JMember("error", JNumber(5))>>}

\* The "metadata" member: absent, null, a map, and a string where the map
\* should be.
EndStreamMetadataMembers ==
    {<<>>, <<JMember("metadata", JNull)>>, <<JMember("metadata", JString("x"))>>}
    \cup {<<JMember("metadata", [t |-> "headers", v |-> m])>> : m \in WireMetadata}

\* The payloads of special envelopes: end-stream objects, an object with a
\* member of another name, and texts that are no object: no JSON, nothing
\* at all, null, an array.
EndStreamTexts ==
    {JObject(error \o metadata, FALSE) :
        error \in EndStreamErrorMembers,
        metadata \in {<<>>, <<JMember("metadata", [t |-> "headers", v |-> TwoSpellings])>>}}
    \cup {JObject(metadata, FALSE) : metadata \in EndStreamMetadataMembers}
    \cup {JObject(<<JMember("extra", JNumber(1))>>, FALSE),
          JInvalid, NoJSON, JNull, JArray(<<>>)}

\* Of these, the payloads that come with other flags as well: an error with
\* trailers, trailers alone, null and no JSON.
EndStreamTextsFlagged ==
    {JObject(<<JMember("error", JObject(<<>>, FALSE)),
               JMember("metadata", [t |-> "headers", v |-> TwoSpellings])>>, FALSE),
     JObject(<<JMember("metadata", [t |-> "headers", v |-> TwoSpellings])>>, FALSE),
     JNull, JInvalid}

\* A payload as the sender's compression pool wrote it.
Compressed(data) ==
    [t |-> "compressed", pool |-> PoolFor("gzip"), data |-> data, len |-> 64]

\* What arrives: messages plain and compressed, a message longer than the
\* read limit, an envelope cut short, the end of the input, and special
\* envelopes with the end-stream flag (2, 3 compressed, 6 with another flag)
\* and without it (4).
Frames ==
    {Frame(0, 64, [t |-> "bytes", len |-> 64]),
     Frame(1, 64, Compressed([t |-> "bytes", len |-> 64])),
     Frame(0, 4096, [t |-> "bytes", len |-> 4096]),
     ShortFrame(0, 64), ShortFrame(2, 64), EndOfInput}
    \cup {Frame(2, 64, text) : text \in EndStreamTexts}
    \cup {Frame(flags, 64, text) : flags \in {4, 6}, text \in EndStreamTextsFlagged}
    \cup {Frame(3, 64, Compressed(text)) : text \in EndStreamTextsFlagged}

Unmarshalers ==
    {NewUnmarshaler(PoolFor("gzip"), readMaxBytes) : readMaxBytes \in {0, 1024}}

\* No call of Unmarshal yet.
NoRead ==
    [frame |-> EndOfInput, order |-> <<>>, read |-> NilError, ret |-> NilError,
     before |-> NewUnmarshaler(NilPool, 0)]

InitReceive ==
    /\ phase = "receive"
    /\ config = [kind |-> "handler", Interceptor |-> NilInterceptor]
    /\ applied = <<>>
    /\ supplied = <<>>
    /\ hooks = NoHooks
    /\ writer = NoWriter
    /\ pools = NoPools
    /\ names = <<>>
    /\ calls = NoCalls
    /\ probe = NoProbe
    /\ stream = NoStream
    /\ \E u \in Unmarshalers :
            receive = [open |-> TRUE, u |-> u, reads |-> 0, call |-> NoRead]

ReceiveVars == <<phase, chainVars, sharedVars, calls, probe, stream>>

\* The trailer map json.Unmarshal decodes from what arrives, over whose
\* keys Unmarshal ranges.
DecodedTrailer(u, frame) ==
    LET read == envelopeReaderUnmarshal(u, frame)
    IN  IF read.err = errSpecialEnvelope
        THEN connectEndStreamMessageUnmarshalJSON(read.u.last.Data.bytes).end.Trailer
        ELSE EmptyHeader

\* Unmarshal(message) on what arrives next.
CallUnmarshal(frame, order) ==
    /\ receive.open
    /\ receive.reads < MaxReads
    /\ order \in KeyOrders(DecodedTrailer(receive.u, frame))
    /\ LET call == connectStreamingUnmarshalerUnmarshal(receive.u, frame, order)
       IN  receive' = [receive EXCEPT
                !.u = call.u,
                !.reads = @ + 1,
                !.call = [frame |-> frame, order |-> order,
                          read |-> envelopeReaderUnmarshal(receive.u, frame).err,
                          ret |-> call.ret, before |-> receive.u]]
    /\ UNCHANGED ReceiveVars

NextReceive ==
    \E frame \in Frames :
        \E order \in KeyOrders(DecodedTrailer(receive.u, frame)) :
            CallUnmarshal(frame, order)

SpecReceive == InitReceive /\ [][NextReceive]_vars

(***************************************************************************)
(* Properties of the receiving end.                                        *)
(***************************************************************************)
\* Unmarshal has been called.
HasRead == phase = "receive" /\ receive.reads > 0

\* The envelope reader reported a special envelope to the last call.
ReadSpecial == HasRead /\ receive.call.read = errSpecialEnvelope

\* The payload of the envelope the last call read, decompressed.
Payload ==
    IF IsSet(receive.call.frame.Flags, flagEnvelopeCompressed)
    THEN receive.call.frame.Data.data ELSE receive.call.frame.Data

EndStreamFlagSet == (receive.call.frame.Flags \div 2) % 2 = 1

\* Every member of the object written under the key is of one of the kinds.
MembersAre(text, key, kinds) ==
    \A i \in 1..Len(text.members) :
        text.members[i].key = key => text.members[i].value.t \in kinds

\* The text is an end-stream JSON object {error?, metadata?}: an object
\* whose "error", when there, is null or a wire error object with strings
\* for code and message and an array for details, and whose "metadata",
\* when there, is null or a map of names to lists of strings.
EndStreamObject(text) ==
    /\ text.t = "object"
    /\ MembersAre(text, "error", {"object", "null"})
    /\ MembersAre(text, "metadata", {"headers", "null"})
    /\ \A i \in 1..Len(text.members) :
            text.members[i].key = "error" /\ text.members[i].value.t = "object"
                => /\ MembersAre(text.members[i].value, "code", {"string", "null"})
                   /\ MembersAre(text.members[i].value, "message", {"string", "null"})
                   /\ MembersAre(text.members[i].value, "details", {"array", "null"})

IsInternal(err) == err.kind = "connect" /\ err.code = CodeInternal

\* C21 as stated: after a special envelope Unmarshal returns a CodeInternal
\* error when the end-stream flag is not set or the payload is no valid
\* end-stream JSON object, and errSpecialEnvelope otherwise.
C21_SpecialEnvelope_AsStated ==
    ReadSpecial
        => IF EndStreamFlagSet /\ EndStreamObject(Payload)
           THEN receive.call.ret = errSpecialEnvelope
           ELSE IsInternal(receive.call.ret) /\ receive.call.ret # errSpecialEnvelope

\* C21: after a special envelope Unmarshal returns a CodeInternal error, not
\* errSpecialEnvelope, when the end-stream flag is not set or the payload is
\* neither a valid end-stream JSON object nor the JSON text null; it returns
\* errSpecialEnvelope exactly when the flag is set and the payload is such
\* an object or null.
C21_SpecialEnvelope ==
    ReadSpecial
        => IF EndStreamFlagSet /\ (EndStreamObject(Payload) \/ Payload = JNull)
           THEN receive.call.ret = errSpecialEnvelope
           ELSE IsInternal(receive.call.ret) /\ receive.call.ret # errSpecialEnvelope

\* C21 witness: a special envelope without the end-stream flag, its payload
\* a valid end-stream object, has been answered with an Internal error.
C21_Witness ==
    /\ ReadSpecial
    /\ receive.call.frame.Flags = 4
    /\ EndStreamObject(Payload)
    /\ IsInternal(receive.call.ret)
    /\ receive.call.ret.message = <<InvalidEnvelopeFlags, 4>>

\* The end-stream message the last call read carried an error.
CarriedError ==
    /\ Payload.t = "object"
    /\ \E i \in 1..Len(Payload.members) :
            Payload.members[i].key = "error" /\ Payload.members[i].value.t = "object"

\* C22: over any sequence of Unmarshal calls, Trailer() and EndStreamError()
\* are after a call what they were before it unless the call returned
\* errSpecialEnvelope: a call that returns nil, one that passes on the
\* envelope reader's error, which it hands on unchanged, and one that
\* returns an Internal error for bad flags or a malformed end-stream message
\* leave both alone; after errSpecialEnvelope, EndStreamError() is nil
\* exactly when the end-stream message carried no error.
C22_EndOfStreamStoredOnlyOnSentinel ==
    HasRead
        => /\ receive.call.ret # errSpecialEnvelope
                => /\ Trailer(receive.u) = Trailer(receive.call.before)
                   /\ EndStreamError(receive.u) = EndStreamError(receive.call.before)
           /\ receive.call.read = NilError => receive.call.ret = NilError
           /\ receive.call.read \notin {NilError, errSpecialEnvelope}
                => receive.call.ret = receive.call.read
           /\ receive.call.ret = errSpecialEnvelope
                => (EndStreamError(receive.u) = NilError <=> ~CarriedError)

\* C22 witness: the end of the stream has been stored, trailers and an
\* error, and a later call that met a special envelope without the
\* end-stream flag, its payload a well-formed end-stream message, has
\* returned an Internal error and left both in place.
C22_Witness ==
    /\ HasRead
    /\ receive.reads = 2
    /\ receive.call.read = errSpecialEnvelope
    /\ IsInternal(receive.call.ret)
    /\ EndStreamObject(Payload)
    /\ CarriedError
    /\ DOMAIN Trailer(receive.u) = {K_XA}
    /\ EndStreamError(receive.u).code = CodeNotFound
    /\ Trailer(receive.u) = Trailer(receive.call.before)

\* The metadata the end-stream message of the last call carried.
WireTrailer ==
    IF Payload.t = "object" /\ jsonField(Payload, "metadata").t = "headers"
    THEN jsonField(Payload, "metadata").v ELSE EmptyHeader

\* A name in canonical HTTP header form: its first letter and every letter
\* after a hyphen in upper case and no other; a name with a character no
\* field name has is taken as it is.
CanonicalForm(name) ==
    (\A i \in 1..Len(name) : validHeaderFieldByte(name[i]))
        => \A i \in 1..Len(name) :
                IF i = 1 \/ name[i - 1] = "-" THEN ~IsLower(name[i])
                ELSE ~IsUpper(name[i])

\* The values the wire carried under the other spellings of a canonical
\* name, spelling after spelling in the order given.
RECURSIVE SpelledValues(_, _, _)
SpelledValues(wire, order, canonical) ==
    IF order = <<>> THEN <<>>
    ELSE (IF /\ Head(order) # canonical
             /\ CanonicalHeaderKey(Head(order)) = canonical
          THEN wire[Head(order)] ELSE <<>>)
            \o SpelledValues(wire, Tail(order), canonical)

\* C24: after Unmarshal has read an end-of-stream envelope, every key of
\* Trailer() is in canonical form, the keys are the canonical forms of the
\* names on the wire, and under each key are exactly the values the wire
\* carried under all spellings of the name, none lost and none twice: those
\* of the canonical spelling first, then those of every other spelling.
C24_TrailerCanonical ==
    HasRead /\ receive.call.ret = errSpecialEnvelope
        => /\ \A k \in DOMAIN Trailer(receive.u) : CanonicalForm(k)
           /\ DOMAIN Trailer(receive.u)
                = {CanonicalHeaderKey(k) : k \in DOMAIN WireTrailer}
           /\ \A k \in DOMAIN WireTrailer :
                ~CanonicalForm(k) => k \notin DOMAIN Trailer(receive.u)
           /\ \A c \in DOMAIN Trailer(receive.u) :
                Trailer(receive.u)[c]
                    = (IF c \in DOMAIN WireTrailer THEN WireTrailer[c] ELSE <<>>)
                        \o SpelledValues(WireTrailer, receive.call.order, c)

\* C24 witness: the end-stream message carried x-a, X-A and x-A; Trailer()
\* holds X-A alone, with the values of all three.
C24_Witness ==
    /\ HasRead
    /\ receive.call.ret = errSpecialEnvelope
    /\ DOMAIN WireTrailer = {K_xa, K_XA, K_xA}
    /\ receive.call.order = <<K_xA, K_XA, K_xa>>
    /\ DOMAIN Trailer(receive.u) = {K_XA}
    /\ Trailer(receive.u)[K_XA] = <<"0", "2", "3", "1">>

(***************************************************************************)
(* A Connect stream in both directions: one side of a call holds a         *)
(* marshaler and an unmarshaler, which draw on the same buffer pool.       *)
(***************************************************************************)
\* Writers that take the end-stream envelope and writers it is too long for.
DuplexMarshalers ==
    {NewMarshaler(pool, 0, sendMaxBytes) :
        pool \in {NilPool, PoolFor("gzip")}, sendMaxBytes \in {0, 1}}

\* What arrives: a message, the end of the input, and special envelopes
\* with and without the end-stream flag, well-formed and not.
DuplexFrames ==
    {Frame(0, 64, [t |-> "bytes", len |-> 64]), EndOfInput}
    \cup {Frame(flags, 64, text) :
            flags \in {2, 4},
            text \in {JInvalid,
                      JObject(<<JMember("metadata",
                                    [t |-> "headers", v |-> TwoSpellings])>>, FALSE)}}

InitDuplex ==
    /\ phase = "duplex"
    /\ config = [kind |-> "handler", Interceptor |-> NilInterceptor]
    /\ applied = <<>>
    /\ supplied = <<>>
    /\ hooks = NoHooks
    /\ writer = NoWriter
    /\ pools = NoPools
    /\ names = <<>>
    /\ calls = NoCalls
    /\ probe = NoProbe
    /\ \E m \in DuplexMarshalers :
            stream = [open |-> TRUE, marshaler |-> m, ended |-> FALSE,
                      end |-> [err |-> NilError, trailer |-> EmptyHeader,
                               before |-> <<>>, env |-> Envelope(NoJSON, 0),
                               trailerAfter |-> EmptyHeader, ret |-> NilError]]
    /\ receive = [open |-> TRUE, u |-> NewUnmarshaler(PoolFor("gzip"), 1024),
                  reads |-> 0, call |-> NoRead]

NextDuplex ==
    \/ \E err \in {NilError, ConnectError(CodeNotFound, "gone", <<>>, ErrMeta, FALSE)} :
            CallMarshalEndStream(err, EmptyHeader)
    \/ \E frame \in DuplexFrames :
        \E order \in KeyOrders(DecodedTrailer(receive.u, frame)) :
            CallUnmarshal(frame, order)

SpecDuplex == InitDuplex /\ [][NextDuplex]_vars

(***************************************************************************)
(* Properties of the buffers.                                              *)
(***************************************************************************)
\* The last call of Unmarshal handled a special envelope.
HandledSpecial ==
    receive.open /\ receive.reads > 0 /\ receive.call.read = errSpecialEnvelope

\* The number of the buffer that call read the envelope into.
BufferRead == receive.call.before.got + 1

\* How often a buffer has been given back to a pool.
TimesPooled(pooled, buffer) == Cardinality({i \in 1..Len(pooled) : pooled[i] = buffer})

\* C23: on every way out of Unmarshal after a special envelope (invalid
\* flags, malformed JSON, end of stream) the envelope's payload buffer has
\* been given back to the buffer pool exactly once and last.Data is cleared,
\* so that the unmarshaler holds no buffer the pool has; and MarshalEndStream
\* has given its payload buffer back to the pool exactly once, whether the
\* envelope was written or Write returned an error.
C23_BuffersReturned ==
    /\ HandledSpecial
        => /\ TimesPooled(receive.u.pooled, BufferRead) = 1
           /\ receive.u.last.Data = NilBuffer
           /\ \A i \in 1..Len(receive.u.pooled) :
                receive.u.pooled[i] # receive.u.last.Data.id
    /\ stream.open /\ stream.ended
        => TimesPooled(stream.marshaler.pooled, stream.end.env.Data) = 1

\* C23 witness: a special envelope with the end-stream flag and a payload
\* that is no JSON has been answered with an Internal error, its buffer
\* back in the pool and forgotten, after an earlier envelope; and the
\* stream has been ended with an envelope too long for the writer, the
\* payload buffer back in the pool all the same.
C23_Witness ==
    /\ HandledSpecial
    /\ receive.reads = 2
    /\ receive.call.frame.Flags = 2
    /\ receive.call.frame.Data = JInvalid
    /\ IsInternal(receive.call.ret)
    /\ receive.u.pooled = <<1, 2>>
    /\ receive.u.last.Data = NilBuffer
    /\ stream.open /\ stream.ended
    /\ stream.end.ret.kind = "connect"
    /\ stream.marshaler.written = <<>>
    /\ stream.marshaler.pooled = <<stream.end.env.Data>>

(***************************************************************************)
(* Properties of degenerate chaining.                                      *)
(***************************************************************************)
\* The step applies a WithInterceptors option.
OptionApplied == Len(applied') = Len(applied) + 1

\* C26: degenerate chaining creates no wrapper. Applying WithInterceptors
\* with no interceptor leaves the config's interceptor exactly as it was,
\* nil included; applying it with a single interceptor to a config that has
\* no interceptor makes that interceptor itself the config's interceptor,
\* not a chain.
C26_DegenerateChaining ==
    [][OptionApplied =>
        LET interceptors == applied'[Len(applied')]
        IN  /\ Len(interceptors) = 0
                => config'.Interceptor = config.Interceptor
            /\ Len(interceptors) = 1 /\ config.Interceptor = NilInterceptor
                => /\ config'.Interceptor = interceptors[1]
                   /\ config'.Interceptor.kind # "chain"]_vars

\* C26 witness: an option with no interceptor was applied to a config with
\* no interceptor, then an option with A alone; the config's interceptor is
\* A itself.
C26_Witness ==
    /\ phase = "options"
    /\ applied = <<<<>>, <<Recorder("A")>>>>
    /\ config.Interceptor = Recorder("A")

(***************************************************************************)
(* Handler options (option.go) and the handler config they are applied to. *)
(***************************************************************************)
\* A handlerConfig as newHandlerConfig starts it, with the Specs the
\* conditional functions have been called with.
HandlerConfig(procedure, streamType) ==
    [config |-> [Procedure |-> procedure, StreamType |-> streamType,
                 ReadMaxBytes |-> 0, SendMaxBytes |-> 0, IdempotencyLevel |-> 0,
                 RequireConnectProtocolHeader |-> FALSE],
     called |-> <<>>]

\* handlerConfig.newSpec
newSpec(c) ==
    [Procedure |-> c.Procedure, StreamType |-> c.StreamType,
     IdempotencyLevel |-> c.IdempotencyLevel]

\* WithReadMaxBytes, WithSendMaxBytes, WithIdempotency,
\* WithRequireConnectProtocolHeader, WithHandlerOptions and
\* WithConditionalHandlerOptions, whose function is given by the options it
\* returns.
WithReadMaxBytes(max) == [kind |-> "readMaxBytes", Max |-> max]
WithSendMaxBytes(max) == [kind |-> "sendMaxBytes", Max |-> max]
WithIdempotency(level) == [kind |-> "idempotency", idempotencyLevel |-> level]
WithRequireConnectProtocolHeader == [kind |-> "requireConnectProtocolHeader"]
WithHandlerOptions(options) == [kind |-> "handlerOptions", options |-> options]
WithConditionalHandlerOptions(conditional) ==
    [kind |-> "conditional", conditional |-> conditional]

\* readMaxBytesOption.applyToHandler
readMaxBytesOptionApplyToHandler(o, st) ==
    [st EXCEPT !.config.ReadMaxBytes = o.Max]

\* sendMaxBytesOption.applyToHandler
sendMaxBytesOptionApplyToHandler(o, st) ==
    [st EXCEPT !.config.SendMaxBytes = o.Max]

\* idempotencyOption.applyToHandler
idempotencyOptionApplyToHandler(o, st) ==
    [st EXCEPT !.config.IdempotencyLevel = o.idempotencyLevel]

\* requireConnectProtocolHeaderOption.applyToHandler
requireConnectProtocolHeaderOptionApplyToHandler(o, st) ==
    [st EXCEPT !.config.RequireConnectProtocolHeader = TRUE]

\* for _, option := range options { option.applyToHandler(config) }
RECURSIVE applyToHandlerEach(_, _)

\* conditionalHandlerOptions.applyToHandler, whatever the procedure.
conditionalHandlerOptionsApplyToHandlerAlways(o, st) ==
    applyToHandlerEach(o.conditional,
        [st EXCEPT !.called = Append(@, newSpec(st.config))])

\* conditionalHandlerOptions.applyToHandler
conditionalHandlerOptionsApplyToHandler(o, st) ==
    LET spec == newSpec(st.config)
    IN  IF spec.Procedure = "" THEN st
        ELSE applyToHandlerEach(o.conditional,
                [st EXCEPT !.called = Append(@, spec)])

\* handlerOptionsOption.applyToHandler
handlerOptionsOptionApplyToHandler(o, st) == applyToHandlerEach(o.options, st)

\* option.applyToHandler(config), by the type of the option.
optionApplyToHandler(o, st) ==
    CASE o.kind = "readMaxBytes" -> readMaxBytesOptionApplyToHandler(o, st)
      [] o.kind = "sendMaxBytes" -> sendMaxBytesOptionApplyToHandler(o, st)
      [] o.kind = "idempotency" -> idempotencyOptionApplyToHandler(o, st)
      [] o.kind = "requireConnectProtocolHeader"
            -> requireConnectProtocolHeaderOptionApplyToHandler(o, st)
      [] o.kind = "handlerOptions" -> handlerOptionsOptionApplyToHandler(o, st)
      [] o.kind = "conditional" -> conditionalHandlerOptionsApplyToHandler(o, st)

applyToHandlerEach(options, st) ==
    IF options = <<>> THEN st
    ELSE applyToHandlerEach(Tail(options), optionApplyToHandler(Head(options), st))

\* newHandlerConfig
newHandlerConfig(procedure, streamType, options) ==
    applyToHandlerEach(options, HandlerConfig(procedure, streamType))

(***************************************************************************)
(* Handler configs and ErrorWriters are built from lists of options.       *)
(***************************************************************************)
MaxHandlerOptions == 3

\* Options that set a field, twice over for one of them; conditional
\* options whose function returns options that set the same fields, or
\* none; and a list of options with a conditional option in it.
ConditionalOptions ==
    {WithConditionalHandlerOptions(<<WithReadMaxBytes(9)>>),
     WithConditionalHandlerOptions(<<WithRequireConnectProtocolHeader,
                                     WithSendMaxBytes(9)>>),
     WithConditionalHandlerOptions(<<>>)}
HandlerOptions ==
    {WithReadMaxBytes(1), WithReadMaxBytes(2), WithSendMaxBytes(1),
     WithIdempotency(1), WithRequireConnectProtocolHeader,
     WithHandlerOptions(<<WithConditionalHandlerOptions(<<WithReadMaxBytes(9)>>),
                          WithSendMaxBytes(2)>>)}
    \cup ConditionalOptions

S_procedure == "/acme.v1.Service/Method"

InitConfig ==
    /\ phase = "configure"
    /\ config = HandlerConfig("", StreamTypeUnary).config
    /\ applied = <<>>
    /\ supplied = <<>>
    /\ hooks = <<>>
    /\ writer = NoWriter
    /\ pools = NoPools
    /\ names = <<>>
    /\ calls = NoCalls
    /\ probe = NoProbe
    /\ stream = NoStream
    /\ receive = NoReceive

\* NewErrorWriter(opts...)
CallNewErrorWriter(opts) ==
    /\ phase = "configure"
    /\ LET built == newHandlerConfig("", StreamTypeUnary, opts)
       IN  /\ config' = built.config
           /\ hooks' = built.called
           /\ writer' = NewErrorWriter(built.config.RequireConnectProtocolHeader)
    /\ applied' = opts
    /\ phase' = "built"
    /\ UNCHANGED <<connectVars, supplied, pools, names, calls>>

\* newHandlerConfig(procedure, streamType, opts), as a handler is built.
CallNewHandlerConfig(procedure, opts) ==
    /\ phase = "configure"
    /\ LET built == newHandlerConfig(procedure, StreamTypeUnary, opts)
       IN  /\ config' = built.config
           /\ hooks' = built.called
    /\ applied' = opts
    /\ phase' = "built"
    /\ UNCHANGED <<connectVars, supplied, writer, pools, names, calls>>

NextConfig ==
    \/ \E opts \in SeqsUpTo(HandlerOptions, MaxHandlerOptions) :
            CallNewErrorWriter(opts)
    \/ \E opts \in SeqsUpTo(HandlerOptions, MaxHandlerOptions) :
            CallNewHandlerConfig(S_procedure, opts)

SpecConfig == InitConfig /\ [][NextConfig]_vars

(***************************************************************************)
(* Properties of conditional handler options.                              *)
(***************************************************************************)
\* The options of a list that are not conditional, in order, those of the
\* lists in it included.
RECURSIVE Unconditional(_)
Unconditional(options) ==
    IF options = <<>> THEN <<>>
    ELSE (CASE Head(options).kind = "conditional" -> <<>>
            [] Head(options).kind = "handlerOptions"
                -> Unconditional(Head(options).options)
            [] OTHER -> <<Head(options)>>)
            \o Unconditional(Tail(options))

\* What the last option of a kind in the list sets, or the default.
LastOf(options, kind, field, default) ==
    LET set == {i \in 1..Len(options) : options[i].kind = kind}
    IN  IF set = {} THEN default
        ELSE options[CHOOSE i \in set : \A j \in set : j <= i][field]

\* C27: options supplied through WithConditionalHandlerOptions never affect
\* an ErrorWriter. With the empty procedure name of NewErrorWriter no
\* conditional function is called, and the config, every field of it, and the
\* ErrorWriter are what the unconditional options of the list alone make
\* them, applied in order, the last option for a field deciding it.
C27_ConditionalOptionsIgnored ==
    phase = "built" /\ config.Procedure = ""
        => LET plain == Unconditional(applied)
           IN  /\ hooks = <<>>
               /\ config.StreamType = StreamTypeUnary
               /\ config.ReadMaxBytes = LastOf(plain, "readMaxBytes", "Max", 0)
               /\ config.SendMaxBytes = LastOf(plain, "sendMaxBytes", "Max", 0)
               /\ config.IdempotencyLevel
                    = LastOf(plain, "idempotency", "idempotencyLevel", 0)
               /\ config.RequireConnectProtocolHeader
                    = (\E i \in 1..Len(plain) :
                            plain[i].kind = "requireConnectProtocolHeader")
               /\ writer = NewErrorWriter(config.RequireConnectProtocolHeader)

\* C27 witness: an ErrorWriter has been built from a read limit, a
\* conditional option that would raise it and require the protocol header,
\* and a second read limit; the second limit stands and the header is not
\* required.
C27_Witness ==
    /\ phase = "built"
    /\ config.Procedure = ""
    /\ Len(applied) = 3
    /\ applied[1] = WithReadMaxBytes(1)
    /\ applied[2].kind = "conditional"
    /\ Len(applied[2].conditional) = 2
    /\ applied[3] = WithReadMaxBytes(2)
    /\ config.ReadMaxBytes = 2
    /\ config.SendMaxBytes = 0
    /\ ~writer.requireConnectProtocolHeader
    /\ hooks = <<>>

====
